---- MODULE Spec2Model ----
(***************************************************************************)
(* Room-Planner: the Grid component's gesture state machine (Grid.tsx),    *)
(* the App state it edits (App.tsx) and the pure geometry helpers          *)
(* (lineHelpers.ts, gridHelpers.ts, collisionDetection.ts).                *)
(*                                                                         *)
(* Numbers.  Pixel coordinates are integers.  A distance is never computed *)
(* as a square root: d <= t is decided as d*d <= t*t on exact integers or  *)
(* on num/den pairs.  snapDistance = 2.5 is kept as twice its value.       *)
(* Every quotient is the exact rational: the rounding of the IEEE doubles  *)
(* the program computes with is not represented.                           *)
(* Furniture positions are grid-cell coordinates and may be fractions      *)
(* k/cellSize; in the gesture machine they are stored multiplied by        *)
(* cellSize (fixed point), and the template sizes are multiplied likewise  *)
(* where the two meet.                                                     *)
(***************************************************************************)
EXTENDS Integers, Sequences, FiniteSets, TLC

VARIABLES
    \* App state (App.tsx)
    lines, selectedTool, selectedLine,
    furnitureTemplates, furniture, selectedTemplate, selectedFurniture,
    gridAlignedMode, preventOverlapping,
    \* Grid state (Grid.tsx)
    isDrawing, startPoint, currentPoint,
    isDraggingEndpoint, isDraggingLine, lineDragOffset,
    isDraggingFurniture, dragOffset,
    viewOffset, isPanning, panStart, spacePressed,
    \* the zoomLevel state of Grid and the last value given to onZoomChange,
    \* both as decimal numerals: the digit before the point, then the digits
    \* after it
    zoom, zoomReported,
    \* argument and result of a helper called on its own
    arg, ret,
    \* the pointer: "up" over the canvas with no button held, "down" over the
    \* canvas with a button held, "out" outside the canvas
    pointer

appVars == <<lines, selectedTool, selectedLine, furnitureTemplates, furniture,
             selectedTemplate, selectedFurniture, gridAlignedMode, preventOverlapping>>
gridVars == <<isDrawing, startPoint, currentPoint, isDraggingEndpoint, isDraggingLine,
              lineDragOffset, isDraggingFurniture, dragOffset, viewOffset, isPanning,
              panStart, spacePressed>>
zoomVars == <<zoom, zoomReported>>
callVars == <<arg, ret>>
progVars == <<appVars, gridVars, zoomVars, callVars>>
vars == <<progVars, pointer>>

-----------------------------------------------------------------------------
\* Program constants: DEFAULT_GRID_CONFIG, the hit-test thresholds, and the zoom
\* level the view starts at.  The wheel is an event of SpecWheel only: in every
\* other specification zoom keeps this value, and the handlers divide by it.

cellSize == 20
inchesPerCell == 6
snapToEndpoints == TRUE
snapToGridFlag == TRUE
snapDistanceTimes2 == 5
lineThreshold == 10
endpointThreshold == 15
zoomLevel == 1

\* Bounds of the model: the sizes of the three lists; the distance in pixels the
\* view may be panned away from the origin; the box of world coordinates a line
\* may be translated in; the box of the segments doLinesIntersect is called on;
\* the grid cells an instance given to getFurnitureBounds may stand on; the
\* length of the line list given to findNearestEndpoint; the largest
\* coordinate, either side of zero, of a point given to the grid conversions;
\* the number of digits zoom may have for the wheel to be turned again.

MaxLines == 2
MaxFurniture == 2
MaxTemplates == 2
MaxPan == 0
MaxWorldX == 40
MaxWorldY == 20
MaxCoordX == 3
MaxCoordY == 2
MaxCell == 1
MaxSnapLines == 2
MaxSnapCoord == 4
MaxZoomDigits == 23

\* Inputs: pointer positions on the canvas, mouse buttons, template sizes
ScreenXs == {0, 10, 20, 30, 40}
Buttons == {0, 1}
TemplateDims == {[width |-> 2, height |-> 1]}

-----------------------------------------------------------------------------
\* Values

Null == [null |-> TRUE]
Pt(px, py) == [x |-> px, y |-> py]
Abs(n) == IF n < 0 THEN -n ELSE n
Min(a, b) == IF a < b THEN a ELSE b
Max(a, b) == IF a > b THEN a ELSE b

\* Math.floor(n / d) and Math.round(n / d) for an integer n and d > 0
\* (Math.round rounds a half towards plus infinity)
Floor(n, d) == n \div d
Round(n, d) == (2 * n + d) \div (2 * d)

-----------------------------------------------------------------------------
\* gridHelpers.ts

snapToGrid(point, cs) ==
    Pt(Round(point.x, cs) * cs, Round(point.y, cs) * cs)

distanceSq(p1, p2) ==
    (p2.x - p1.x) * (p2.x - p1.x) + (p2.y - p1.y) * (p2.y - p1.y)

\* The loop of findNearestEndpoint from line i on; minSq4 is four times the
\* square of minDistance, so that snapDistance 2.5 starts it at 25.
RECURSIVE nearestEndpointFrom(_, _, _, _, _)
nearestEndpointFrom(point, ls, i, minSq4, nearestPoint) ==
    IF i > Len(ls) THEN nearestPoint
    ELSE LET dS == 4 * distanceSq(point, ls[i].start)
             m1 == IF dS < minSq4 THEN dS ELSE minSq4
             n1 == IF dS < minSq4 THEN ls[i].start ELSE nearestPoint
             dE == 4 * distanceSq(point, ls[i].end)
             m2 == IF dE < m1 THEN dE ELSE m1
             n2 == IF dE < m1 THEN ls[i].end ELSE n1
         IN  nearestEndpointFrom(point, ls, i + 1, m2, n2)

\* findNearestEndpoint with both comparisons written <=: an endpoint as near as
\* the nearest so far replaces it, and one at the snap distance is taken
RECURSIVE nearestEndpointFrom_orEqual(_, _, _, _, _)
nearestEndpointFrom_orEqual(point, ls, i, minSq4, nearestPoint) ==
    IF i > Len(ls) THEN nearestPoint
    ELSE LET dS == 4 * distanceSq(point, ls[i].start)
             m1 == IF dS <= minSq4 THEN dS ELSE minSq4
             n1 == IF dS <= minSq4 THEN ls[i].start ELSE nearestPoint
             dE == 4 * distanceSq(point, ls[i].end)
             m2 == IF dE <= m1 THEN dE ELSE m1
             n2 == IF dE <= m1 THEN ls[i].end ELSE n1
         IN  nearestEndpointFrom_orEqual(point, ls, i + 1, m2, n2)

findNearestEndpoint_orEqual(point, ls, snapDist2) ==
    nearestEndpointFrom_orEqual(point, ls, 1, snapDist2 * snapDist2, Null)

findNearestEndpoint(point, ls, snapDist2) ==
    nearestEndpointFrom(point, ls, 1, snapDist2 * snapDist2, Null)

\* snapToGridIfClose with every "at most" written "less than"
snapToGridIfClose_strict(point, cs, snapDist2) ==
    LET snappedToGrid == snapToGrid(point, cs)
        nearestGridX == Round(point.x, cs) * cs
        nearestGridY == Round(point.y, cs) * cs
    IN  IF 4 * distanceSq(point, snappedToGrid) < snapDist2 * snapDist2
        THEN snappedToGrid
        ELSE Pt(IF 2 * Abs(point.x - nearestGridX) < snapDist2
                THEN nearestGridX ELSE point.x,
                IF 2 * Abs(point.y - nearestGridY) < snapDist2
                THEN nearestGridY ELSE point.y)

snapToGridIfClose(point, cs, snapDist2) ==
    LET snappedToGrid == snapToGrid(point, cs)
        nearestGridX == Round(point.x, cs) * cs
        nearestGridY == Round(point.y, cs) * cs
    IN  IF 4 * distanceSq(point, snappedToGrid) <= snapDist2 * snapDist2
        THEN snappedToGrid
        ELSE Pt(IF 2 * Abs(point.x - nearestGridX) <= snapDist2
                THEN nearestGridX ELSE point.x,
                IF 2 * Abs(point.y - nearestGridY) <= snapDist2
                THEN nearestGridY ELSE point.y)

\* smartSnap with the two snaps tried in the other order: the grid first
smartSnap_gridFirst(point, ls, cs, toEndpoints, toGrid, snapDist2) ==
    LET nearestEndpoint == findNearestEndpoint(point, ls, snapDist2)
    IN  IF toGrid THEN snapToGridIfClose(point, cs, snapDist2)
        ELSE IF toEndpoints /\ nearestEndpoint # Null THEN nearestEndpoint
        ELSE point

smartSnap(point, ls, cs, toEndpoints, toGrid, snapDist2) ==
    LET nearestEndpoint == findNearestEndpoint(point, ls, snapDist2)
    IN  IF toEndpoints /\ nearestEndpoint # Null THEN nearestEndpoint
        ELSE IF toGrid THEN snapToGridIfClose(point, cs, snapDist2)
        ELSE point

\* canvasToGrid cutting the quotient toward zero instead of flooring it
canvasToGrid_truncate(point, cs) ==
    LET Trunc(n) == IF n >= 0 THEN n \div cs ELSE -((-n) \div cs)
    IN  Pt(Trunc(point.x), Trunc(point.y))

canvasToGrid(point, cs) == Pt(Floor(point.x, cs), Floor(point.y, cs))

gridToCanvas(point, cs) == Pt(point.x * cs, point.y * cs)

-----------------------------------------------------------------------------
\* lineHelpers.ts

\* distanceToLine without the clamp of t to [0, 1]: the distance to the
\* supporting line
distanceToLineSq_unclamped(point, line) ==
    LET dx == line.end.x - line.start.x
        dy == line.end.y - line.start.y
        lenSq == dx * dx + dy * dy
        wx == point.x - line.start.x
        wy == point.y - line.start.y
        dot == wx * dx + wy * dy
    IN  IF lenSq = 0 THEN [num |-> wx * wx + wy * wy, den |-> 1]
        ELSE [num |-> (wx * lenSq - dot * dx) * (wx * lenSq - dot * dx)
                        + (wy * lenSq - dot * dy) * (wy * lenSq - dot * dy),
              den |-> lenSq * lenSq]

\* distanceToLine(point, line), squared, as the fraction num/den.  t is the
\* fraction tn/td, the projection is start + t (end - start), and the result
\* is the squared distance from the point to the projection.
distanceToLineSq(point, line) ==
    LET dx == line.end.x - line.start.x
        dy == line.end.y - line.start.y
        lenSq == dx * dx + dy * dy
        wx == point.x - line.start.x
        wy == point.y - line.start.y
        dot == wx * dx + wy * dy
        tn == Max(0, Min(lenSq, dot))
        td == lenSq
    IN  IF lenSq = 0 THEN [num |-> wx * wx + wy * wy, den |-> 1]
        ELSE [num |-> (wx * td - tn * dx) * (wx * td - tn * dx)
                        + (wy * td - tn * dy) * (wy * td - tn * dy),
              den |-> td * td]

\* distanceToLine(point, line) <= threshold.  With w = point - start,
\* d = end - start, the clamped parameter is t = (w.d)/(d.d); the squared
\* distance to the projection is |w|^2 for t = 0, |point - end|^2 for t = 1
\* and (|w|^2 (d.d) - (w.d)^2) / (d.d) in between.
distanceToLineWithin(point, line, threshold) ==
    LET dx == line.end.x - line.start.x
        dy == line.end.y - line.start.y
        lenSq == dx * dx + dy * dy
        wx == point.x - line.start.x
        wy == point.y - line.start.y
        dot == wx * dx + wy * dy
        thSq == threshold * threshold
    IN  IF lenSq = 0 THEN distanceSq(point, line.start) <= thSq
        ELSE IF dot <= 0 THEN distanceSq(point, line.start) <= thSq
        ELSE IF dot >= lenSq THEN distanceSq(point, line.end) <= thSq
        ELSE (wx * wx + wy * wy) * lenSq - dot * dot <= thSq * lenSq

RECURSIVE findLineFrom(_, _, _, _)
findLineFrom(point, ls, i, threshold) ==
    IF i > Len(ls) THEN Null
    ELSE IF distanceToLineWithin(point, ls[i], threshold) THEN ls[i]
    ELSE findLineFrom(point, ls, i + 1, threshold)

\* findLineAtPoint going through the list from its end: the last line within
\* the threshold
RECURSIVE findLineDownFrom(_, _, _, _)
findLineDownFrom(point, ls, i, threshold) ==
    IF i < 1 THEN Null
    ELSE IF distanceToLineWithin(point, ls[i], threshold) THEN ls[i]
    ELSE findLineDownFrom(point, ls, i - 1, threshold)

findLineAtPoint_last(point, ls, threshold) ==
    findLineDownFrom(point, ls, Len(ls), threshold)

findLineAtPoint(point, ls, threshold) == findLineFrom(point, ls, 1, threshold)

findEndpointAtPoint(point, line, threshold) ==
    IF distanceSq(point, line.start) <= threshold * threshold THEN "start"
    ELSE IF distanceSq(point, line.end) <= threshold * threshold THEN "end"
    ELSE "null"

\* The projections of checkCoincidentOverlap are all divided by the same
\* positive Math.sqrt(length1Sq); the comparisons are made before dividing.
checkCoincidentOverlap(line1, line2) ==
    LET p1 == line1.start
        p2 == line1.end
        p3 == line2.start
        p4 == line2.end
        d1x == p2.x - p1.x
        d1y == p2.y - p1.y
        area1 == d1x * (p3.y - p1.y) - d1y * (p3.x - p1.x)
        area2 == d1x * (p4.y - p1.y) - d1y * (p4.x - p1.x)
        length1Sq == d1x * d1x + d1y * d1y
        proj1 == 0
        proj2 == (p2.x - p1.x) * d1x + (p2.y - p1.y) * d1y
        proj3 == (p3.x - p1.x) * d1x + (p3.y - p1.y) * d1y
        proj4 == (p4.x - p1.x) * d1x + (p4.y - p1.y) * d1y
        min1 == Min(proj1, proj2)
        max1 == Max(proj1, proj2)
        min2 == Min(proj3, proj4)
        max2 == Max(proj3, proj4)
    IN  IF area1 # 0 \/ area2 # 0 THEN FALSE
        ELSE IF length1Sq = 0 THEN FALSE
        ELSE max1 >= min2 /\ max2 >= min1

\* doLinesIntersect with t <= 1 written t < 1: a segment that ends on the other
\* one no longer counts as intersecting it
doLinesIntersect_strictT(line1, line2) ==
    LET p1 == line1.start
        p2 == line1.end
        p3 == line2.start
        p4 == line2.end
        d1x == p2.x - p1.x
        d1y == p2.y - p1.y
        d2x == p4.x - p3.x
        d2y == p4.y - p3.y
        denominator == d1x * d2y - d1y * d2x
        tNum == (p3.x - p1.x) * d2y - (p3.y - p1.y) * d2x
        uNum == (p3.x - p1.x) * d1y - (p3.y - p1.y) * d1x
        unit(n) == IF denominator > 0 THEN 0 <= n /\ n <= denominator
                   ELSE denominator <= n /\ n <= 0
        below(n) == IF denominator > 0 THEN n < denominator ELSE denominator < n
    IN  IF denominator = 0 THEN checkCoincidentOverlap(line1, line2)
        ELSE unit(tNum) /\ below(tNum) /\ unit(uNum)

\* doLinesIntersect with 0 < t < 1 and 0 < u < 1: segments that cross at an end
\* of either one no longer count as intersecting
doLinesIntersect_openEnds(line1, line2) ==
    LET p1 == line1.start
        p2 == line1.end
        p3 == line2.start
        p4 == line2.end
        d1x == p2.x - p1.x
        d1y == p2.y - p1.y
        d2x == p4.x - p3.x
        d2y == p4.y - p3.y
        denominator == d1x * d2y - d1y * d2x
        tNum == (p3.x - p1.x) * d2y - (p3.y - p1.y) * d2x
        uNum == (p3.x - p1.x) * d1y - (p3.y - p1.y) * d1x
        inside(n) == IF denominator > 0 THEN 0 < n /\ n < denominator
                     ELSE denominator < n /\ n < 0
    IN  IF denominator = 0 THEN checkCoincidentOverlap(line1, line2)
        ELSE inside(tNum) /\ inside(uNum)

\* t = tNum / denominator and u = uNum / denominator; 0 <= t <= 1 is decided
\* on the numerator according to the sign of the denominator.
doLinesIntersect(line1, line2) ==
    LET p1 == line1.start
        p2 == line1.end
        p3 == line2.start
        p4 == line2.end
        d1x == p2.x - p1.x
        d1y == p2.y - p1.y
        d2x == p4.x - p3.x
        d2y == p4.y - p3.y
        denominator == d1x * d2y - d1y * d2x
        tNum == (p3.x - p1.x) * d2y - (p3.y - p1.y) * d2x
        uNum == (p3.x - p1.x) * d1y - (p3.y - p1.y) * d1x
        unit(n) == IF denominator > 0 THEN 0 <= n /\ n <= denominator
                   ELSE denominator <= n /\ n <= 0
    IN  IF denominator = 0 THEN checkCoincidentOverlap(line1, line2)
        ELSE unit(tNum) /\ unit(uNum)

checkLineIntersection(newLine, existingLines) ==
    \E i \in 1..Len(existingLines) : doLinesIntersect(newLine, existingLines[i])

-----------------------------------------------------------------------------
\* collisionDetection.ts

\* getFurnitureBounds with the swap made for rotation 90 only
getFurnitureBounds_only90(item, template) ==
    LET isRotated == item.rotation = 90
        actualWidth == IF isRotated THEN template.height ELSE template.width
        actualHeight == IF isRotated THEN template.width ELSE template.height
    IN  [x |-> item.position.x, y |-> item.position.y,
         width |-> actualWidth, height |-> actualHeight]

getFurnitureBounds(item, template) ==
    LET isRotated == item.rotation = 90 \/ item.rotation = 270
        actualWidth == IF isRotated THEN template.height ELSE template.width
        actualHeight == IF isRotated THEN template.width ELSE template.height
    IN  [x |-> item.position.x, y |-> item.position.y,
         width |-> actualWidth, height |-> actualHeight]

\* checkFurnitureCollision with the first <= written <: a rectangle that ends
\* where the other begins counts as colliding
checkFurnitureCollision_touching(f1, t1, f2, t2) ==
    LET b1 == getFurnitureBounds(f1, t1)
        b2 == getFurnitureBounds(f2, t2)
    IN  ~(\/ b1.x + b1.width < b2.x
          \/ b2.x + b2.width <= b1.x
          \/ b1.y + b1.height <= b2.y
          \/ b2.y + b2.height <= b1.y)

checkFurnitureCollision(f1, t1, f2, t2) ==
    LET b1 == getFurnitureBounds(f1, t1)
        b2 == getFurnitureBounds(f2, t2)
    IN  ~(\/ b1.x + b1.width <= b2.x
          \/ b2.x + b2.width <= b1.x
          \/ b1.y + b1.height <= b2.y
          \/ b2.y + b2.height <= b1.y)

\* isPointInFurniture with the right edge compared by <=: a closed rectangle
\* in x
isPointInFurniture_closedRight(point, item, template) ==
    LET bounds == getFurnitureBounds(item, template)
    IN  /\ point.x >= bounds.x
        /\ point.x <= bounds.x + bounds.width
        /\ point.y >= bounds.y
        /\ point.y < bounds.y + bounds.height

isPointInFurniture(point, item, template) ==
    LET bounds == getFurnitureBounds(item, template)
    IN  /\ point.x >= bounds.x
        /\ point.x < bounds.x + bounds.width
        /\ point.y >= bounds.y
        /\ point.y < bounds.y + bounds.height

-----------------------------------------------------------------------------
\* State of App and Grid after construction

Pt0 == [x |-> 0, y |-> 0]

InitApp ==
    /\ lines = <<>>
    /\ selectedTool = "line"
    /\ selectedLine = 0
    /\ furnitureTemplates = <<>>
    /\ furniture = <<>>
    /\ selectedTemplate = 0
    /\ selectedFurniture = 0
    /\ gridAlignedMode = TRUE

InitGrid ==
    /\ isDrawing = FALSE
    /\ startPoint = Null
    /\ currentPoint = Null
    /\ isDraggingEndpoint = "null"
    /\ isDraggingLine = FALSE
    /\ lineDragOffset = Null
    /\ isDraggingFurniture = FALSE
    /\ dragOffset = Null
    /\ viewOffset = Pt0
    /\ isPanning = FALSE
    /\ panStart = Null
    /\ spacePressed = FALSE
    /\ zoom = <<zoomLevel>>
    /\ zoomReported = <<zoomLevel>>

\* The config prop of Grid: preventOverlapping is a boolean of GridConfig that
\* no handler of App changes; both values are started from.
Init ==
    /\ InitApp
    /\ InitGrid
    /\ preventOverlapping \in BOOLEAN
    /\ arg = Null
    /\ ret = Null
    /\ pointer = "up"

-----------------------------------------------------------------------------
\* Props and derived values of Grid

mode == IF selectedTool = "line" THEN "draw" ELSE selectedTool

\* pointer positions: the top row of the canvas and one point half a cell below it
ScreenPts == {Pt(sx, 0) : sx \in ScreenXs} \cup {Pt(0, 10)}

screenToWorld(screen) ==
    Pt((screen.x - viewOffset.x) \div zoomLevel, (screen.y - viewOffset.y) \div zoomLevel)

snappedOf(worldPoint) ==
    IF gridAlignedMode THEN snapToGrid(worldPoint, cellSize)
    ELSE smartSnap(worldPoint, lines, cellSize, snapToEndpoints, snapToGridFlag,
                   snapDistanceTimes2)

\* canvasToGrid(worldPoint), in fixed point
gridPosOf(worldPoint) ==
    LET g == canvasToGrid(worldPoint, cellSize) IN Pt(g.x * cellSize, g.y * cellSize)

lineById(id) ==
    IF \E i \in 1..Len(lines) : lines[i].id = id
    THEN lines[CHOOSE i \in 1..Len(lines) : lines[i].id = id]
    ELSE Null

\* furnitureTemplates.find(t => t.id === templateId), sizes in fixed point
templateOf(templateId) ==
    IF \E i \in 1..Len(furnitureTemplates) : furnitureTemplates[i].id = templateId
    THEN LET t == furnitureTemplates[CHOOSE i \in 1..Len(furnitureTemplates) :
                                        furnitureTemplates[i].id = templateId]
         IN  [id |-> t.id, width |-> t.width * cellSize, height |-> t.height * cellSize]
    ELSE Null

furnitureHit(gridPos, i) ==
    /\ templateOf(furniture[i].templateId) # Null
    /\ isPointInFurniture(gridPos, furniture[i], templateOf(furniture[i].templateId))

\* furniture.find(item => template && isPointInFurniture(gridPos, item, template))
clickedFurnitureAt(gridPos) ==
    IF \E i \in 1..Len(furniture) : furnitureHit(gridPos, i)
    THEN furniture[CHOOSE i \in 1..Len(furniture) :
                     /\ furnitureHit(gridPos, i)
                     /\ \A j \in 1..(i - 1) : ~furnitureHit(gridPos, j)]
    ELSE Null

freshId(used, max) == CHOOSE i \in 1..max : i \notin used /\ \A j \in 1..(i - 1) : j \in used

lineIds == {lines[i].id : i \in 1..Len(lines)}
furnitureIds == {furniture[i].id : i \in 1..Len(furniture)}
templateIds == {furnitureTemplates[i].id : i \in 1..Len(furnitureTemplates)}

-----------------------------------------------------------------------------
\* App.tsx: the callbacks Grid calls, as the value they give the list

\* handleLineAdd: setLines([...lines, newLine])
handleLineAdd(newLine) == Append(lines, newLine)

\* handleLineEdit: lines.map(line => line.id === lineId ? {...line, ...updates} : line)
handleLineEdit(lineId, newStart, newEnd) ==
    [i \in 1..Len(lines) |->
        IF lines[i].id = lineId
        THEN [lines[i] EXCEPT !.start = newStart, !.end = newEnd]
        ELSE lines[i]]

\* handleFurnitureAdd: setFurniture([...furniture, item])
handleFurnitureAdd(item) == Append(furniture, item)

\* handleFurnitureMove: furniture.map(f => f.id === id ? {...f, position} : f)
handleFurnitureMove(id, position) ==
    [i \in 1..Len(furniture) |->
        IF furniture[i].id = id
        THEN [furniture[i] EXCEPT !.position = position]
        ELSE furniture[i]]

-----------------------------------------------------------------------------
\* Grid.tsx: handleMouseDown

inBox(p) == p.x \in 0..MaxWorldX /\ p.y \in 0..MaxWorldY

handleMouseDown(screen, button) ==
    LET worldPoint == screenToWorld(screen)
        snapped == snappedOf(worldPoint)
        gridPos == gridPosOf(worldPoint)
        clickedFurniture == clickedFurnitureAt(gridPos)
        sel == lineById(selectedLine)
        endpoint == IF sel = Null THEN "null"
                    ELSE findEndpointAtPoint(worldPoint, sel, endpointThreshold \div zoomLevel)
        clickedLine == findLineAtPoint(worldPoint, lines, lineThreshold)
        newFurniture == [id |-> freshId(furnitureIds, MaxFurniture),
                         templateId |-> selectedTemplate,
                         position |-> IF gridAlignedMode THEN gridPos ELSE worldPoint,
                         rotation |-> 0]
    IN
    IF spacePressed \/ button = 1 THEN
        \* panning with space or the middle button
        /\ isPanning' = TRUE
        /\ panStart' = screen
        /\ UNCHANGED <<appVars, callVars, zoomVars, isDrawing, startPoint, currentPoint,
                       isDraggingEndpoint, isDraggingLine, lineDragOffset,
                       isDraggingFurniture, dragOffset, viewOffset, spacePressed>>
    ELSE IF mode = "furniture" THEN
        IF clickedFurniture # Null THEN
            /\ selectedFurniture' = clickedFurniture.id
            /\ isDraggingFurniture' = TRUE
            /\ dragOffset' = Pt(gridPos.x - clickedFurniture.position.x,
                                gridPos.y - clickedFurniture.position.y)
            /\ UNCHANGED <<lines, selectedTool, selectedLine, furnitureTemplates, furniture,
                           selectedTemplate, gridAlignedMode, preventOverlapping,
                           callVars, zoomVars, isDrawing, startPoint, currentPoint,
                           isDraggingEndpoint, isDraggingLine, lineDragOffset,
                           viewOffset, isPanning, panStart, spacePressed>>
        ELSE IF selectedTemplate # 0 THEN
            /\ Len(furniture) < MaxFurniture
            /\ furniture' = handleFurnitureAdd(newFurniture)
            /\ selectedFurniture' = newFurniture.id
            /\ UNCHANGED <<lines, selectedTool, selectedLine, furnitureTemplates,
                           selectedTemplate, gridAlignedMode, preventOverlapping,
                           callVars, zoomVars, gridVars>>
        ELSE UNCHANGED progVars
    ELSE IF mode = "select" THEN
        IF clickedFurniture # Null THEN
            /\ selectedFurniture' = clickedFurniture.id
            /\ isDraggingFurniture' = TRUE
            /\ dragOffset' = Pt(gridPos.x - clickedFurniture.position.x,
                                gridPos.y - clickedFurniture.position.y)
            /\ UNCHANGED <<lines, selectedTool, selectedLine, furnitureTemplates, furniture,
                           selectedTemplate, gridAlignedMode, preventOverlapping,
                           callVars, zoomVars, isDrawing, startPoint, currentPoint,
                           isDraggingEndpoint, isDraggingLine, lineDragOffset,
                           viewOffset, isPanning, panStart, spacePressed>>
        ELSE IF sel # Null /\ endpoint # "null" THEN
            \* the opposite endpoint is the anchor that will not move
            /\ isDraggingEndpoint' = endpoint
            /\ startPoint' = IF endpoint = "start" THEN sel.end ELSE sel.start
            /\ currentPoint' = snapped
            /\ UNCHANGED <<appVars, callVars, zoomVars, isDrawing, isDraggingLine, lineDragOffset,
                           isDraggingFurniture, dragOffset, viewOffset, isPanning,
                           panStart, spacePressed>>
        ELSE IF sel # Null /\ findLineAtPoint(worldPoint, <<sel>>, lineThreshold) # Null THEN
            \* the line body: translation
            /\ isDraggingLine' = TRUE
            /\ lineDragOffset' = Pt(worldPoint.x - sel.start.x, worldPoint.y - sel.start.y)
            /\ UNCHANGED <<appVars, callVars, zoomVars, isDrawing, startPoint, currentPoint,
                           isDraggingEndpoint, isDraggingFurniture, dragOffset,
                           viewOffset, isPanning, panStart, spacePressed>>
        ELSE
            /\ selectedLine' = IF clickedLine # Null THEN clickedLine.id ELSE 0
            /\ selectedFurniture' = 0
            /\ UNCHANGED <<lines, selectedTool, furnitureTemplates, furniture,
                           selectedTemplate, gridAlignedMode, preventOverlapping,
                           callVars, zoomVars, gridVars>>
    ELSE
        \* mode = "draw"
        /\ Len(lines) < MaxLines
        /\ isDrawing' = TRUE
        /\ startPoint' = snapped
        /\ currentPoint' = snapped
        /\ UNCHANGED <<appVars, callVars, zoomVars, isDraggingEndpoint, isDraggingLine,
                       lineDragOffset, isDraggingFurniture, dragOffset, viewOffset,
                       isPanning, panStart, spacePressed>>

\* onMouseDown: a button goes down while none is held
MouseDown ==
    /\ pointer = "up"
    /\ pointer' = "down"
    /\ \E screen \in ScreenPts, button \in Buttons : handleMouseDown(screen, button)

-----------------------------------------------------------------------------
\* Grid.tsx: handleMouseMove

\* the in-progress point constrained to the anchor's row or column
constrainToAxis(anchor, snapped) ==
    IF Abs(snapped.x - anchor.x) > Abs(snapped.y - anchor.y)
    THEN Pt(snapped.x, anchor.y)
    ELSE Pt(anchor.x, snapped.y)

\* the position a furniture drag gives, without the rounding of grid-aligned
\* mode
furnitureDragPos_unrounded(basePos, offset) ==
    Pt(basePos.x - offset.x, basePos.y - offset.y)

\* newPos of a furniture drag: basePos - dragOffset, both coordinates rounded to
\* whole cells when grid-aligned mode is on
furnitureDragPos(basePos, offset) ==
    LET rawPos == Pt(basePos.x - offset.x, basePos.y - offset.y)
    IN  IF gridAlignedMode
        THEN Pt(Round(rawPos.x, cellSize) * cellSize,
                Round(rawPos.y, cellSize) * cellSize)
        ELSE rawPos

handleMouseMove(screen) ==
    LET worldPoint == screenToWorld(screen)
        snapped == snappedOf(worldPoint)
        gridPos == gridPosOf(worldPoint)
        sel == lineById(selectedLine)
        basePos == IF gridAlignedMode THEN gridPos ELSE worldPoint
        newPos == furnitureDragPos(basePos, dragOffset)
        dx == (snapped.x - lineDragOffset.x) - sel.start.x
        dy == (snapped.y - lineDragOffset.y) - sel.start.y
        newStart == Pt(sel.start.x + dx, sel.start.y + dy)
        newEnd == Pt(sel.end.x + dx, sel.end.y + dy)
        newOffset == Pt(viewOffset.x + (screen.x - panStart.x),
                        viewOffset.y + (screen.y - panStart.y))
    IN
    IF isPanning /\ panStart # Null THEN
        /\ Abs(newOffset.x) <= MaxPan
        /\ Abs(newOffset.y) <= MaxPan
        /\ viewOffset' = newOffset
        /\ panStart' = screen
        /\ UNCHANGED <<appVars, callVars, zoomVars, isDrawing, startPoint, currentPoint,
                       isDraggingEndpoint, isDraggingLine, lineDragOffset,
                       isDraggingFurniture, dragOffset, isPanning, spacePressed>>
    ELSE IF mode = "furniture" THEN
        \* the placement preview follows the pointer, in screen coordinates
        /\ currentPoint' = screen
        /\ UNCHANGED <<appVars, callVars, zoomVars, isDrawing, startPoint, isDraggingEndpoint,
                       isDraggingLine, lineDragOffset, isDraggingFurniture, dragOffset,
                       viewOffset, isPanning, panStart, spacePressed>>
    ELSE IF isDraggingFurniture /\ selectedFurniture # 0 /\ dragOffset # Null THEN
        /\ furniture' = handleFurnitureMove(selectedFurniture, newPos)
        /\ UNCHANGED <<lines, selectedTool, selectedLine, furnitureTemplates,
                       selectedTemplate, selectedFurniture, gridAlignedMode,
                       preventOverlapping, callVars, zoomVars, gridVars>>
    ELSE IF isDraggingLine /\ sel # Null /\ lineDragOffset # Null THEN
        /\ inBox(newStart)
        /\ inBox(newEnd)
        /\ startPoint' = newStart
        /\ currentPoint' = newEnd
        /\ UNCHANGED <<appVars, callVars, zoomVars, isDrawing, isDraggingEndpoint, isDraggingLine,
                       lineDragOffset, isDraggingFurniture, dragOffset, viewOffset,
                       isPanning, panStart, spacePressed>>
    ELSE IF isDraggingEndpoint # "null" /\ sel # Null /\ startPoint # Null THEN
        /\ currentPoint' = IF gridAlignedMode THEN constrainToAxis(startPoint, snapped)
                           ELSE snapped
        /\ UNCHANGED <<appVars, callVars, zoomVars, isDrawing, startPoint, isDraggingEndpoint,
                       isDraggingLine, lineDragOffset, isDraggingFurniture, dragOffset,
                       viewOffset, isPanning, panStart, spacePressed>>
    ELSE IF isDrawing /\ mode = "draw" /\ startPoint # Null THEN
        /\ currentPoint' = IF gridAlignedMode THEN constrainToAxis(startPoint, snapped)
                           ELSE snapped
        /\ UNCHANGED <<appVars, callVars, zoomVars, isDrawing, startPoint, isDraggingEndpoint,
                       isDraggingLine, lineDragOffset, isDraggingFurniture, dragOffset,
                       viewOffset, isPanning, panStart, spacePressed>>
    ELSE UNCHANGED progVars

\* onMouseMove, with or without a button held
MouseMove ==
    /\ pointer # "out"
    /\ UNCHANGED pointer
    /\ \E screen \in ScreenPts : handleMouseMove(screen)

-----------------------------------------------------------------------------
\* Grid.tsx: handleMouseUp, also the canvas's onMouseLeave

translationEnds ==
    isDraggingLine /\ selectedLine # 0 /\ startPoint # Null /\ currentPoint # Null

endpointDragEnds ==
    isDraggingEndpoint # "null" /\ selectedLine # 0 /\ currentPoint # Null /\ startPoint # Null

drawEnds ==
    isDrawing /\ startPoint # Null /\ currentPoint # Null /\ mode = "draw"

drawnLine == [id |-> freshId(lineIds, MaxLines), start |-> startPoint, end |-> currentPoint]

handleMouseUp ==
    IF isPanning THEN
        /\ isPanning' = FALSE
        /\ panStart' = Null
        /\ UNCHANGED <<appVars, callVars, zoomVars, isDrawing, startPoint, currentPoint,
                       isDraggingEndpoint, isDraggingLine, lineDragOffset,
                       isDraggingFurniture, dragOffset, viewOffset, spacePressed>>
    ELSE IF isDraggingFurniture THEN
        /\ isDraggingFurniture' = FALSE
        /\ dragOffset' = Null
        /\ UNCHANGED <<appVars, callVars, zoomVars, isDrawing, startPoint, currentPoint,
                       isDraggingEndpoint, isDraggingLine, lineDragOffset,
                       viewOffset, isPanning, panStart, spacePressed>>
    ELSE IF translationEnds THEN
        /\ lines' = handleLineEdit(selectedLine, startPoint, currentPoint)
        /\ isDraggingLine' = FALSE
        /\ lineDragOffset' = Null
        /\ startPoint' = Null
        /\ currentPoint' = Null
        /\ UNCHANGED <<selectedTool, selectedLine, furnitureTemplates, furniture,
                       selectedTemplate, selectedFurniture, gridAlignedMode,
                       preventOverlapping, callVars, zoomVars, isDrawing, isDraggingEndpoint,
                       isDraggingFurniture, dragOffset, viewOffset, isPanning, panStart,
                       spacePressed>>
    ELSE IF endpointDragEnds THEN
        \* only a line of non-zero length is written back
        /\ lines' = IF currentPoint.x # startPoint.x \/ currentPoint.y # startPoint.y
                    THEN IF isDraggingEndpoint = "start"
                         THEN handleLineEdit(selectedLine, currentPoint, startPoint)
                         ELSE handleLineEdit(selectedLine, startPoint, currentPoint)
                    ELSE lines
        /\ isDraggingEndpoint' = "null"
        /\ startPoint' = Null
        /\ currentPoint' = Null
        /\ UNCHANGED <<selectedTool, selectedLine, furnitureTemplates, furniture,
                       selectedTemplate, selectedFurniture, gridAlignedMode,
                       preventOverlapping, callVars, zoomVars, isDrawing, isDraggingLine,
                       lineDragOffset, isDraggingFurniture, dragOffset, viewOffset,
                       isPanning, panStart, spacePressed>>
    ELSE
        /\ lines' = IF /\ drawEnds
                       /\ (startPoint.x # currentPoint.x \/ startPoint.y # currentPoint.y)
                       /\ ~checkLineIntersection(drawnLine, lines)
                    THEN handleLineAdd(drawnLine)
                    ELSE lines
        /\ isDrawing' = FALSE
        /\ startPoint' = Null
        /\ currentPoint' = Null
        /\ UNCHANGED <<selectedTool, selectedLine, furnitureTemplates, furniture,
                       selectedTemplate, selectedFurniture, gridAlignedMode,
                       preventOverlapping, callVars, zoomVars, isDraggingEndpoint, isDraggingLine,
                       lineDragOffset, isDraggingFurniture, dragOffset, viewOffset,
                       isPanning, panStart, spacePressed>>

\* onMouseUp: the held button is released over the canvas
MouseUp ==
    /\ pointer = "down"
    /\ pointer' = "up"
    /\ handleMouseUp

\* onMouseLeave wired to a handler that drops the gesture instead of handleMouseUp
MouseLeave_abandon ==
    /\ pointer # "out"
    /\ pointer' = "out"
    /\ isDrawing' = FALSE
    /\ isDraggingEndpoint' = "null"
    /\ isDraggingLine' = FALSE
    /\ lineDragOffset' = Null
    /\ isDraggingFurniture' = FALSE
    /\ dragOffset' = Null
    /\ isPanning' = FALSE
    /\ panStart' = Null
    /\ startPoint' = Null
    /\ currentPoint' = Null
    /\ UNCHANGED <<appVars, callVars, zoomVars, viewOffset, spacePressed>>

\* onMouseLeave={handleMouseUp}: the pointer leaves the canvas, button held or not
MouseLeave ==
    /\ pointer # "out"
    /\ pointer' = "out"
    /\ handleMouseUp

\* the pointer comes back over the canvas, with or without a button held: the
\* canvas has no onMouseEnter, nothing of the component changes
MouseEnter ==
    /\ pointer = "out"
    /\ pointer' \in {"up", "down"}
    /\ UNCHANGED progVars

-----------------------------------------------------------------------------
\* Grid.tsx: the spacebar

handleKeyDown ==
    /\ spacePressed' = TRUE
    /\ UNCHANGED <<appVars, callVars, zoomVars, isDrawing, startPoint, currentPoint,
                   isDraggingEndpoint, isDraggingLine, lineDragOffset,
                   isDraggingFurniture, dragOffset, viewOffset, isPanning, panStart,
                   pointer>>

handleKeyUp ==
    /\ spacePressed' = FALSE
    /\ isPanning' = FALSE
    /\ panStart' = Null
    /\ UNCHANGED <<appVars, callVars, zoomVars, isDrawing, startPoint, currentPoint,
                   isDraggingEndpoint, isDraggingLine, lineDragOffset,
                   isDraggingFurniture, dragOffset, viewOffset, pointer>>

-----------------------------------------------------------------------------
\* App.tsx: toolbar, selection panel and furniture library

onToolChange(tool) ==
    /\ selectedTool' = tool
    /\ selectedLine' = 0
    /\ UNCHANGED <<lines, furnitureTemplates, furniture, selectedTemplate,
                   selectedFurniture, gridAlignedMode, preventOverlapping,
                   callVars, zoomVars, gridVars, pointer>>

\* the toolbar buttons of the line-editing scenario; the Furniture button and the
\* furniture library belong to the furniture scenario
LineTools == {"line", "select"}

ToolChange == \E tool \in LineTools : onToolChange(tool)

handleGridAlignedModeChange(enabled) ==
    /\ gridAlignedMode' = enabled
    /\ UNCHANGED <<lines, selectedTool, selectedLine, furnitureTemplates, furniture,
                   selectedTemplate, selectedFurniture, preventOverlapping,
                   callVars, zoomVars, gridVars, pointer>>

GridAlignedModeChange == \E enabled \in BOOLEAN : handleGridAlignedModeChange(enabled)

\* the Delete Line button, shown while a line is selected
handleLineDelete ==
    /\ selectedLine # 0
    /\ lines' = SelectSeq(lines, LAMBDA l : l.id # selectedLine)
    /\ selectedLine' = 0
    /\ UNCHANGED <<selectedTool, furnitureTemplates, furniture, selectedTemplate,
                   selectedFurniture, gridAlignedMode, preventOverlapping,
                   callVars, zoomVars, gridVars, pointer>>

handleAddFurnitureTemplate(dims) ==
    /\ Len(furnitureTemplates) < MaxTemplates
    /\ furnitureTemplates' =
           Append(furnitureTemplates,
                  [id |-> freshId(templateIds, MaxTemplates),
                   width |-> dims.width, height |-> dims.height])
    /\ UNCHANGED <<lines, selectedTool, selectedLine, furniture, selectedTemplate,
                   selectedFurniture, gridAlignedMode, preventOverlapping,
                   callVars, zoomVars, gridVars, pointer>>

AddFurnitureTemplate == \E dims \in TemplateDims : handleAddFurnitureTemplate(dims)

handleSelectTemplate(id) ==
    /\ selectedTemplate' = id
    /\ selectedTool' = "furniture"
    /\ UNCHANGED <<lines, selectedLine, furnitureTemplates, furniture,
                   selectedFurniture, gridAlignedMode, preventOverlapping,
                   callVars, zoomVars, gridVars, pointer>>

SelectTemplate == \E id \in templateIds : handleSelectTemplate(id)

\* handleDeleteFurnitureTemplate without its last statement: the instances of
\* the template stay
handleDeleteFurnitureTemplate_keepInstances(id) ==
    /\ furnitureTemplates' = SelectSeq(furnitureTemplates, LAMBDA t : t.id # id)
    /\ selectedTemplate' = IF selectedTemplate = id THEN 0 ELSE selectedTemplate
    /\ UNCHANGED <<lines, selectedTool, selectedLine, furniture, selectedFurniture,
                   gridAlignedMode, preventOverlapping, callVars, zoomVars, gridVars, pointer>>

handleDeleteFurnitureTemplate(id) ==
    /\ furnitureTemplates' = SelectSeq(furnitureTemplates, LAMBDA t : t.id # id)
    /\ selectedTemplate' = IF selectedTemplate = id THEN 0 ELSE selectedTemplate
    /\ furniture' = SelectSeq(furniture, LAMBDA f : f.templateId # id)
    /\ UNCHANGED <<lines, selectedTool, selectedLine, selectedFurniture,
                   gridAlignedMode, preventOverlapping, callVars, zoomVars, gridVars, pointer>>

DeleteFurnitureTemplate == \E id \in templateIds : handleDeleteFurnitureTemplate(id)

\* handleFurnitureRotate adding a quarter turn without taking it modulo 360
newRotation_unbounded(rotation) == rotation + 90

\* ((f.rotation + 90) % 360)
newRotation(rotation) == (rotation + 90) % 360

\* the Rotate and Delete buttons, shown while a furniture instance is selected
handleFurnitureRotate ==
    /\ selectedFurniture # 0
    /\ furniture' = [i \in 1..Len(furniture) |->
                        IF furniture[i].id = selectedFurniture
                        THEN [furniture[i] EXCEPT
                                 !.rotation = newRotation(furniture[i].rotation)]
                        ELSE furniture[i]]
    /\ UNCHANGED <<lines, selectedTool, selectedLine, furnitureTemplates,
                   selectedTemplate, selectedFurniture, gridAlignedMode,
                   preventOverlapping, callVars, zoomVars, gridVars, pointer>>

handleFurnitureDelete ==
    /\ selectedFurniture # 0
    /\ furniture' = SelectSeq(furniture, LAMBDA f : f.id # selectedFurniture)
    /\ selectedFurniture' = 0
    /\ UNCHANGED <<lines, selectedTool, selectedLine, furnitureTemplates,
                   selectedTemplate, gridAlignedMode, preventOverlapping,
                   callVars, zoomVars, gridVars, pointer>>

-----------------------------------------------------------------------------
\* Line editing with the default configuration (grid-aligned mode on): every
\* event of the canvas and the keyboard, the Line and Select tools and the
\* Delete Line button.

Next ==
    \/ MouseDown
    \/ MouseMove
    \/ MouseUp
    \/ MouseLeave
    \/ MouseEnter
    \/ handleKeyDown
    \/ handleKeyUp
    \/ ToolChange
    \/ handleLineDelete

Spec == Init /\ [][Next]_vars

-----------------------------------------------------------------------------
\* doLinesIntersect called on its own, on every pair of segments with integer
\* endpoints in a small box (segments of zero length included)

Points == {Pt(px, py) : px \in 0..MaxCoordX, py \in 0..MaxCoordY}
Segments == {[start |-> a, end |-> b] : a \in Points, b \in Points}

InitIntersect ==
    /\ InitApp
    /\ InitGrid
    /\ preventOverlapping = TRUE
    /\ pointer = "up"
    /\ arg \in {[line1 |-> l1, line2 |-> l2] : l1 \in Segments, l2 \in Segments}
    /\ ret = Null

CallDoLinesIntersect ==
    /\ ret = Null
    /\ ret' = [value |-> doLinesIntersect(arg.line1, arg.line2)]
    /\ UNCHANGED <<arg, appVars, gridVars, zoomVars, pointer>>

SpecIntersect == InitIntersect /\ [][CallDoLinesIntersect]_vars

-----------------------------------------------------------------------------
\* getFurnitureBounds called on its own, the way collisionDetection.test.ts calls
\* it: getFurnitureBounds(furniture, template, inchesPerCell).  The function
\* declares two parameters; the third argument of the call is received by none.

TemplateInches == {[id |-> 1, width |-> w, height |-> h] : w \in {12, 24, 36}, h \in {12, 24}}
Rotations == {0, 90, 180, 270}
Instances ==
    {[id |-> 1, templateId |-> 1, position |-> Pt(px, py), rotation |-> r] :
        px \in 0..MaxCell, py \in 0..MaxCell, r \in Rotations}
ScaleInches == {6, 12}

InitBounds ==
    /\ InitApp
    /\ InitGrid
    /\ preventOverlapping = TRUE
    /\ pointer = "up"
    /\ arg \in {[furniture |-> f, template |-> t, inchesPerCell |-> n] :
                   f \in Instances, t \in TemplateInches, n \in ScaleInches}
    /\ ret = Null

CallGetFurnitureBounds ==
    /\ ret = Null
    /\ ret' = getFurnitureBounds(arg.furniture, arg.template)
    /\ UNCHANGED <<arg, appVars, gridVars, zoomVars, pointer>>

SpecBounds == InitBounds /\ [][CallGetFurnitureBounds]_vars

-----------------------------------------------------------------------------
\* Properties of the gesture machine (checked under Spec)

\* the interaction state Idle: no gesture flag is set
Idle ==
    /\ ~isDrawing
    /\ isDraggingEndpoint = "null"
    /\ ~isDraggingLine
    /\ ~isDraggingFurniture
    /\ ~isPanning

\* a draw gesture is in progress and is the only gesture in progress
DrawOnly ==
    /\ isDrawing
    /\ mode = "draw"
    /\ startPoint # Null
    /\ currentPoint # Null
    /\ isDraggingEndpoint = "null"
    /\ ~isDraggingLine
    /\ ~isDraggingFurniture
    /\ ~isPanning

\* an endpoint of the selected line is being dragged, and nothing else
EndpointDragOnly ==
    /\ isDraggingEndpoint # "null"
    /\ selectedLine # 0
    /\ startPoint # Null
    /\ currentPoint # Null
    /\ ~isDrawing
    /\ ~isDraggingLine
    /\ ~isDraggingFurniture
    /\ ~isPanning

\* the pending line of a draw gesture touches or crosses a line of the list
PendingIntersects ==
    \E i \in 1..Len(lines) :
        doLinesIntersect([start |-> startPoint, end |-> currentPoint], lines[i])

\* the list after the step is the list before it with the pending line appended
PendingAdded ==
    /\ Len(lines') = Len(lines) + 1
    /\ SubSeq(lines', 1, Len(lines)) = lines
    /\ lines'[Len(lines')].start = startPoint
    /\ lines'[Len(lines')].end = currentPoint

\* the list after the step is the list before it with the dragged endpoint of
\* the selected line at the current point and its other endpoint at the anchor
EndpointWritten ==
    /\ Len(lines') = Len(lines)
    /\ \A i \in 1..Len(lines) :
          IF lines[i].id = selectedLine
          THEN /\ lines'[i].id = lines[i].id
               /\ lines'[i].start =
                      (IF isDraggingEndpoint = "start" THEN currentPoint ELSE startPoint)
               /\ lines'[i].end =
                      (IF isDraggingEndpoint = "start" THEN startPoint ELSE currentPoint)
          ELSE lines'[i] = lines[i]

AxisAligned(l) == l.start.x = l.end.x \/ l.start.y = l.end.y

\* C1: on the mouseup that ends a draw gesture the pending line is added to
\* the line list if and only if it has nonzero length and, when
\* preventOverlapping is enabled, it intersects no line of the list; with
\* preventOverlapping disabled a nonzero line is added even if it intersects.
C1_DrawCommitsUnlessPrevented ==
    [][(MouseUp /\ DrawOnly) =>
          IF startPoint # currentPoint /\ ~(preventOverlapping /\ PendingIntersects)
          THEN PendingAdded
          ELSE lines' = lines]_vars

\* C2: with preventOverlapping enabled, starting from the empty layout, no two
\* distinct lines of the list intersect or overlap, whatever gestures were made.
C2_NoTwoLinesIntersect ==
    preventOverlapping =>
        \A i, j \in 1..Len(lines) : i # j => ~doLinesIntersect(lines[i], lines[j])

\* C3: every line of the list has its start different from its end, whatever
\* draw, endpoint-drag and translate gestures were made.
C3_NoZeroLengthLine ==
    \A i \in 1..Len(lines) : lines[i].start # lines[i].end

\* C4: with gridAlignedMode on, a mouseup (after a mousedown and zero or more
\* mousemoves) leaves every line horizontal or vertical, if every line was so
\* before it.
C4_CommittedLinesAxisAligned ==
    [][(MouseUp /\ gridAlignedMode /\ \A i \in 1..Len(lines) : AxisAligned(lines[i])) =>
          \A i \in 1..Len(lines') : AxisAligned(lines'[i])]_vars

\* C5: after every mouseup the interaction state is Idle: isDrawing,
\* isDraggingEndpoint, isDraggingLine, isDraggingFurniture and isPanning are
\* all cleared.
C5_IdleAfterMouseUp ==
    [][MouseUp => Idle']_vars

-----------------------------------------------------------------------------
\* Properties of doLinesIntersect (checked under SpecIntersect)

NonZero(l) == l.start # l.end

\* The point P / K lies on the closed segment l (P is given multiplied by K > 0):
\* it is on the supporting line and its projection falls between the ends.
OnSegmentScaled(P, K, l) ==
    LET dx == l.end.x - l.start.x
        dy == l.end.y - l.start.y
        wx == P.x - K * l.start.x
        wy == P.y - K * l.start.y
        along == wx * dx + wy * dy
    IN  /\ dx * wy - dy * wx = 0
        /\ 0 <= along
        /\ along <= K * (dx * dx + dy * dy)

\* The closed segments l1 and l2 share a point, for l1 of nonzero length: some
\* point of l1 at a parameter n / K, 0 <= n <= K, lies on l2.  With integer
\* endpoints a shared point exists only if one exists at such a parameter: for
\* crossing supporting lines K is the absolute value of the cross product of
\* the directions (Cramer's rule); for parallel ones an end of one segment
\* lies on the other, at parameter 0, 1 or (projection) / |l1|^2.
SegmentsSharePoint(l1, l2) ==
    LET d1x == l1.end.x - l1.start.x
        d1y == l1.end.y - l1.start.y
        d2x == l2.end.x - l2.start.x
        d2y == l2.end.y - l2.start.y
        cross == d1x * d2y - d1y * d2x
        K == IF cross # 0 THEN Abs(cross) ELSE d1x * d1x + d1y * d1y
    IN  \E n \in 0..K :
            OnSegmentScaled(Pt(K * l1.start.x + n * d1x, K * l1.start.y + n * d1y), K, l2)

\* C7: for two segments of nonzero length doLinesIntersect is true if and only
\* if the closed segments share at least one point (crossing, touching at an
\* end, collinear overlap), and false otherwise.
C7_IntersectIffSharePoint ==
    (ret # Null /\ NonZero(arg.line1) /\ NonZero(arg.line2)) =>
        (ret.value <=> SegmentsSharePoint(arg.line1, arg.line2))

\* doLinesIntersect has answered true for two collinear segments of nonzero
\* length that meet in the single point (1, 0)
C7_Witness ==
    /\ ret # Null
    /\ arg.line1 = [start |-> Pt(0, 0), end |-> Pt(1, 0)]
    /\ arg.line2 = [start |-> Pt(1, 0), end |-> Pt(3, 0)]
    /\ ret.value

\* C8: doLinesIntersect is symmetric, segments of zero length included:
\* doLinesIntersect(l1, l2) = doLinesIntersect(l2, l1).
C8_IntersectSymmetric ==
    ret # Null => (ret.value <=> doLinesIntersect(arg.line2, arg.line1))

-----------------------------------------------------------------------------
\* Properties of getFurnitureBounds (checked under SpecBounds)

\* C9: getFurnitureBounds returns x and y equal to the instance position and,
\* at rotation 0, width = template.width / inchesPerCell and
\* height = template.height / inchesPerCell (36 by 24 inches at 12 inches per
\* cell: 3 by 2 cells).
C9_BoundsInCells ==
    ret # Null =>
        /\ ret.x = arg.furniture.position.x
        /\ ret.y = arg.furniture.position.y
        /\ arg.furniture.rotation = 0 =>
              /\ ret.width * arg.inchesPerCell = arg.template.width
              /\ ret.height * arg.inchesPerCell = arg.template.height

\* C10: getFurnitureBounds gives at rotation 180 the width and height of
\* rotation 0, at rotations 90 and 270 the width and height of rotation 0
\* swapped, and the same x and y at all four rotations.
C10_RotationInvariants ==
    ret # Null =>
        LET atZero == getFurnitureBounds([arg.furniture EXCEPT !.rotation = 0],
                                         arg.template)
        IN  /\ ret.x = atZero.x
            /\ ret.y = atZero.y
            /\ arg.furniture.rotation = 180 =>
                  ret.width = atZero.width /\ ret.height = atZero.height
            /\ arg.furniture.rotation \in {90, 270} =>
                  ret.width = atZero.height /\ ret.height = atZero.width

\* getFurnitureBounds has answered for an instance at rotation 270 of a template
\* that is not square
C10_Witness ==
    /\ ret # Null
    /\ arg.furniture.rotation = 270
    /\ arg.template.width # arg.template.height
    /\ ret.width = arg.template.height

-----------------------------------------------------------------------------
\* checkFurnitureCollision called on its own, on two instances standing in a
\* small box, each with a template of its own

SmallTemplates == {[id |-> 1, width |-> w, height |-> h] : w \in {1, 2}, h \in {1, 2}}
SmallInstances ==
    {[id |-> 1, templateId |-> 1, position |-> p, rotation |-> r] :
        p \in Points, r \in {0, 90}}

InitCollision ==
    /\ InitApp
    /\ InitGrid
    /\ preventOverlapping = TRUE
    /\ pointer = "up"
    /\ arg \in {[f1 |-> a, t1 |-> ta, f2 |-> b, t2 |-> tb] :
                   a \in SmallInstances, ta \in SmallTemplates,
                   b \in SmallInstances, tb \in SmallTemplates}
    /\ ret = Null

CallCheckFurnitureCollision ==
    /\ ret = Null
    /\ ret' = [value |-> checkFurnitureCollision(arg.f1, arg.t1, arg.f2, arg.t2)]
    /\ UNCHANGED <<arg, appVars, gridVars, zoomVars, pointer>>

SpecCollision == InitCollision /\ [][CallCheckFurnitureCollision]_vars

\* the extent of the overlap of the intervals [a, a + la] and [b, b + lb]
OverlapExtent(a, la, b, lb) == Min(a + la, b + lb) - Max(a, b)

-----------------------------------------------------------------------------
\* isPointInFurniture called on its own

InitPointIn ==
    /\ InitApp
    /\ InitGrid
    /\ preventOverlapping = TRUE
    /\ pointer = "up"
    /\ arg \in {[point |-> p, furniture |-> f, template |-> t] :
                   p \in Points, f \in SmallInstances, t \in SmallTemplates}
    /\ ret = Null

CallIsPointInFurniture ==
    /\ ret = Null
    /\ ret' = [value |-> isPointInFurniture(arg.point, arg.furniture, arg.template)]
    /\ UNCHANGED <<arg, appVars, gridVars, zoomVars, pointer>>

SpecPointIn == InitPointIn /\ [][CallIsPointInFurniture]_vars

\* the rectangles a and b share an edge: a ends where b begins, in x or in y
EdgeAdjacent(a, b) ==
    \/ a.x + a.width = b.x
    \/ b.x + b.width = a.x
    \/ a.y + a.height = b.y
    \/ b.y + b.height = a.y

-----------------------------------------------------------------------------
\* findNearestEndpoint called on its own: a point of the box, a list of lines
\* between a few points of it, and a snap distance of 1, 1.5 or 2 (given, as
\* everywhere, as twice its value)

EndPts == {Pt(0, 0), Pt(1, 0), Pt(0, 1), Pt(2, 0), Pt(2, 1)}
SnapLines == {[id |-> 1, start |-> a, end |-> b] : a \in EndPts, b \in EndPts}
SnapLineLists == UNION {[1..n -> SnapLines] : n \in 0..MaxSnapLines}
SnapDist2s == {2, 3, 4}

InitNearest ==
    /\ InitApp
    /\ InitGrid
    /\ preventOverlapping = TRUE
    /\ pointer = "up"
    /\ arg \in {[point |-> p, lines |-> ls, snapDistance2 |-> d] :
                   p \in Points, ls \in SnapLineLists, d \in SnapDist2s}
    /\ ret = Null

CallFindNearestEndpoint ==
    /\ ret = Null
    /\ ret' = [value |-> findNearestEndpoint(arg.point, arg.lines, arg.snapDistance2)]
    /\ UNCHANGED <<arg, appVars, gridVars, zoomVars, pointer>>

SpecNearest == InitNearest /\ [][CallFindNearestEndpoint]_vars

\* the endpoints of a list of lines in iteration order: start before end, line
\* after line
EndpointsInOrder(ls) ==
    [k \in 1..(2 * Len(ls)) |->
        IF k % 2 = 1 THEN ls[(k + 1) \div 2].start ELSE ls[k \div 2].end]

\* C14: findNearestEndpoint returns null if and only if no endpoint lies at a
\* distance strictly less than snapDistance; otherwise it returns an endpoint
\* of minimal distance, the first in iteration order among those.
C14_NearestEndpointFirstOfNearest ==
    ret # Null =>
        LET e == EndpointsInOrder(arg.lines)
            d(k) == 4 * distanceSq(arg.point, e[k])
            within == {k \in DOMAIN e : d(k) < arg.snapDistance2 * arg.snapDistance2}
            nearest == {k \in within : \A j \in within : d(k) <= d(j)}
        IN  IF within = {} THEN ret.value = Null
            ELSE \E k \in nearest :
                    /\ \A j \in nearest : k <= j
                    /\ ret.value = e[k]

\* findNearestEndpoint has answered with the first of two different endpoints
\* at the same distance, while an endpoint at exactly the snap distance is in
\* the list
C14_Witness ==
    /\ ret # Null
    /\ arg.point = Pt(1, 1)
    /\ arg.snapDistance2 = 4
    /\ arg.lines = <<[id |-> 1, start |-> Pt(2, 0), end |-> Pt(1, 0)],
                     [id |-> 1, start |-> Pt(0, 1), end |-> Pt(2, 1)]>>
    /\ ret.value = Pt(1, 0)

-----------------------------------------------------------------------------
\* smartSnap called on its own, with both flags free, a grid of 2 or 4 and no
\* line or one line to snap to

SnapCellSizes == {2, 4}
NoneOrOneLine == {<<>>} \cup {<<l>> : l \in SnapLines}

InitSmartSnap ==
    /\ InitApp
    /\ InitGrid
    /\ preventOverlapping = TRUE
    /\ pointer = "up"
    /\ arg \in {[point |-> p, lines |-> ls, cellSize |-> cs, snapToEndpoints |-> e,
                 snapToGrid |-> g, snapDistance2 |-> d] :
                   p \in Points, ls \in NoneOrOneLine, cs \in SnapCellSizes,
                   e \in BOOLEAN, g \in BOOLEAN, d \in SnapDist2s}
    /\ ret = Null

CallSmartSnap ==
    /\ ret = Null
    /\ ret' = [value |-> smartSnap(arg.point, arg.lines, arg.cellSize,
                                   arg.snapToEndpoints, arg.snapToGrid, arg.snapDistance2)]
    /\ UNCHANGED <<arg, appVars, gridVars, zoomVars, pointer>>

SpecSmartSnap == InitSmartSnap /\ [][CallSmartSnap]_vars

\* C13: smartSnap returns the result of findNearestEndpoint whenever
\* snapToEndpoints is true and that result is not null, whatever the grid flag;
\* otherwise snapToGridIfClose(point) when the grid flag is true; otherwise the
\* input point.
C13_EndpointBeforeGrid ==
    ret # Null =>
        LET nearestEndpoint == findNearestEndpoint(arg.point, arg.lines, arg.snapDistance2)
            endpointWins == arg.snapToEndpoints /\ nearestEndpoint # Null
        IN  /\ endpointWins => ret.value = nearestEndpoint
            /\ ~endpointWins /\ arg.snapToGrid =>
                   ret.value = snapToGridIfClose(arg.point, arg.cellSize, arg.snapDistance2)
            /\ ~endpointWins /\ ~arg.snapToGrid => ret.value = arg.point

\* smartSnap has answered with an endpoint for a point that stands on a grid
\* intersection, with both flags on
C13_Witness ==
    /\ ret # Null
    /\ arg.snapToEndpoints
    /\ arg.snapToGrid
    /\ snapToGrid(arg.point, arg.cellSize) = arg.point
    /\ ret.value # arg.point
    /\ \E i \in DOMAIN arg.lines : ret.value \in {arg.lines[i].start, arg.lines[i].end}

-----------------------------------------------------------------------------
\* snapToGridIfClose and snapToGrid called on their own, on points either side
\* of zero

SnapCoords == (-MaxSnapCoord)..MaxSnapCoord
SnapPoints == {Pt(px, py) : px \in SnapCoords, py \in SnapCoords}

InitSnapIfClose ==
    /\ InitApp
    /\ InitGrid
    /\ preventOverlapping = TRUE
    /\ pointer = "up"
    /\ arg \in {[point |-> p, cellSize |-> cs, snapDistance2 |-> d] :
                   p \in SnapPoints, cs \in SnapCellSizes, d \in SnapDist2s}
    /\ ret = Null

CallSnapToGridIfClose ==
    /\ ret = Null
    /\ ret' = [value |-> snapToGridIfClose(arg.point, arg.cellSize, arg.snapDistance2)]
    /\ UNCHANGED <<arg, appVars, gridVars, zoomVars, pointer>>

SpecSnapIfClose == InitSnapIfClose /\ [][CallSnapToGridIfClose]_vars

\* the multiples of cs that a coordinate of SnapCoords can be nearest to
Multiples(cs) == {m * cs : m \in (-MaxSnapCoord - 1)..(MaxSnapCoord + 1)}
NearestMultiples(v, cs) ==
    {m \in Multiples(cs) : \A o \in Multiples(cs) : Abs(v - m) <= Abs(v - o)}

\* a coordinate decided on its own: a nearest multiple when that is within the
\* snap distance, unchanged otherwise
AxisSnapped(v, r, cs, snapDist2) ==
    \E m \in NearestMultiples(v, cs) :
        IF 2 * Abs(v - m) <= snapDist2 THEN r = m ELSE r = v

\* C15: snapToGridIfClose returns snapToGrid(point) when the point is within
\* snapDistance (inclusive) of it; otherwise each coordinate is decided on its
\* own: the nearest multiple of cellSize when at most snapDistance away, the
\* input value otherwise.
C15_CloseSnapsElsePerAxis ==
    ret # Null =>
        LET snapped == snapToGrid(arg.point, arg.cellSize)
        IN  IF 4 * distanceSq(arg.point, snapped) <= arg.snapDistance2 * arg.snapDistance2
            THEN ret.value = snapped
            ELSE /\ AxisSnapped(arg.point.x, ret.value.x, arg.cellSize, arg.snapDistance2)
                 /\ AxisSnapped(arg.point.y, ret.value.y, arg.cellSize, arg.snapDistance2)

\* snapToGridIfClose has moved x, which was exactly the snap distance from its
\* multiple, and kept y, which was farther from its own
C15_Witness ==
    /\ ret # Null
    /\ ret.value.x # arg.point.x
    /\ 2 * Abs(ret.value.x - arg.point.x) = arg.snapDistance2
    /\ ret.value.y = arg.point.y
    /\ arg.point.y \notin Multiples(arg.cellSize)

InitSnapToGrid ==
    /\ InitApp
    /\ InitGrid
    /\ preventOverlapping = TRUE
    /\ pointer = "up"
    /\ arg \in {[point |-> p, cellSize |-> cs] : p \in SnapPoints, cs \in SnapCellSizes}
    /\ ret = Null

CallSnapToGrid ==
    /\ ret = Null
    /\ ret' = [value |-> snapToGrid(arg.point, arg.cellSize)]
    /\ UNCHANGED <<arg, appVars, gridVars, zoomVars, pointer>>

SpecSnapToGrid == InitSnapToGrid /\ [][CallSnapToGrid]_vars

\* a coordinate rounded as the claim has it: to a nearest multiple, the one
\* farther from zero when two are as near, itself when it is a multiple
RoundedAwayFromZero(v, r, cs) ==
    /\ r \in NearestMultiples(v, cs)
    /\ 2 * Abs(v - r) = cs => Abs(r) > Abs(v)
    /\ v \in Multiples(cs) => r = v

\* C16: snapToGrid maps each coordinate on its own, positive or negative, to
\* the multiple of cellSize nearest to it, a coordinate halfway between two
\* multiples to the one farther from zero, and a point on the grid to itself.
C16_NearestHalfAwayFromZero ==
    ret # Null =>
        /\ RoundedAwayFromZero(arg.point.x, ret.value.x, arg.cellSize)
        /\ RoundedAwayFromZero(arg.point.y, ret.value.y, arg.cellSize)

-----------------------------------------------------------------------------
\* the two round trips between canvas and grid coordinates, the argument read
\* as a canvas point by the first and as a grid point by the second

InitRoundTrip ==
    /\ InitApp
    /\ InitGrid
    /\ preventOverlapping = TRUE
    /\ pointer = "up"
    /\ arg \in {[point |-> p, cellSize |-> cs] : p \in SnapPoints, cs \in SnapCellSizes}
    /\ ret = Null

CallCanvasRoundTrip ==
    /\ ret = Null
    /\ ret' = [from |-> "canvas",
               value |-> gridToCanvas(canvasToGrid(arg.point, arg.cellSize), arg.cellSize)]
    /\ UNCHANGED <<arg, appVars, gridVars, zoomVars, pointer>>

CallGridRoundTrip ==
    /\ ret = Null
    /\ ret' = [from |-> "grid",
               value |-> canvasToGrid(gridToCanvas(arg.point, arg.cellSize), arg.cellSize)]
    /\ UNCHANGED <<arg, appVars, gridVars, zoomVars, pointer>>

NextRoundTrip == CallCanvasRoundTrip \/ CallGridRoundTrip

SpecRoundTrip == InitRoundTrip /\ [][NextRoundTrip]_vars

\* C17: gridToCanvas(canvasToGrid(p)) equals p if and only if both coordinates
\* of p are multiples of cellSize, an off-grid coordinate, negative ones
\* included, going down to the corner of its cell; and
\* canvasToGrid(gridToCanvas(g)) equals g for every integer grid point.
C17_RoundTrips ==
    ret # Null =>
        LET p == arg.point
            cs == arg.cellSize
            r == ret.value
        IN  IF ret.from = "canvas"
            THEN /\ r = p <=> (p.x % cs = 0 /\ p.y % cs = 0)
                 /\ r.x <= p.x /\ p.x < r.x + cs
                 /\ r.y <= p.y /\ p.y < r.y + cs
            ELSE r = p

\* the canvas round trip has taken a negative off-grid point down to the
\* corner of its cell
C17_Witness ==
    /\ ret # Null
    /\ ret.from = "canvas"
    /\ arg.point.x < 0
    /\ arg.point.x % arg.cellSize # 0
    /\ ret.value.x < arg.point.x

-----------------------------------------------------------------------------
\* distanceToLine called on its own, on every point and segment of the box

InitDistance ==
    /\ InitApp
    /\ InitGrid
    /\ preventOverlapping = TRUE
    /\ pointer = "up"
    /\ arg \in {[point |-> p, line |-> l] : p \in Points, l \in Segments}
    /\ ret = Null

CallDistanceToLine ==
    /\ ret = Null
    /\ ret' = distanceToLineSq(arg.point, arg.line)
    /\ UNCHANGED <<arg, appVars, gridVars, zoomVars, pointer>>

SpecDistance == InitDistance /\ [][CallDistanceToLine]_vars

\* the fractions r and n/d are the same number
SameFraction(r, n, d) == r.num * d = n * r.den

-----------------------------------------------------------------------------
\* findLineAtPoint called on its own: a point of the box, a list of lines
\* numbered in list order, and a threshold of 0, 1 or 2

HitLineLists ==
    {[i \in DOMAIN ls |-> [ls[i] EXCEPT !.id = i]] : ls \in SnapLineLists}
HitThresholds == {0, 1, 2}

InitFindLine ==
    /\ InitApp
    /\ InitGrid
    /\ preventOverlapping = TRUE
    /\ pointer = "up"
    /\ arg \in {[point |-> p, lines |-> ls, threshold |-> th] :
                   p \in Points, ls \in HitLineLists, th \in HitThresholds}
    /\ ret = Null

CallFindLineAtPoint ==
    /\ ret = Null
    /\ ret' = [value |-> findLineAtPoint(arg.point, arg.lines, arg.threshold)]
    /\ UNCHANGED <<arg, appVars, gridVars, zoomVars, pointer>>

SpecFindLine == InitFindLine /\ [][CallFindLineAtPoint]_vars

\* distanceToLine(point, line) <= threshold, on the squared fraction
WithinThreshold(point, line, threshold) ==
    LET dist == distanceToLineSq(point, line)
    IN  dist.num <= threshold * threshold * dist.den

\* line a is strictly nearer to the point than line b
StrictlyNearer(point, a, b) ==
    LET da == distanceToLineSq(point, a)
        db == distanceToLineSq(point, b)
    IN  da.num * db.den < db.num * da.den

\* C19: findLineAtPoint returns the first line in input order whose
\* distanceToLine to the point is at most the threshold, even when a later
\* line is strictly nearer, and null if and only if no line is within the
\* threshold.
C19_FirstLineWithinThreshold ==
    ret # Null =>
        LET within == {i \in DOMAIN arg.lines :
                          WithinThreshold(arg.point, arg.lines[i], arg.threshold)}
        IN  /\ ret.value = Null <=> within = {}
            /\ within # {} =>
                   \E i \in within :
                       /\ \A j \in within : i <= j
                       /\ ret.value = arg.lines[i]

\* findLineAtPoint has answered with the first line, exactly the threshold
\* away, while the second line of the list is strictly nearer
C19_Witness ==
    /\ ret # Null
    /\ Len(arg.lines) = 2
    /\ arg.threshold > 0
    /\ ret.value = arg.lines[1]
    /\ distanceToLineSq(arg.point, arg.lines[1]).num
         = arg.threshold * arg.threshold * distanceToLineSq(arg.point, arg.lines[1]).den
    /\ StrictlyNearer(arg.point, arg.lines[2], arg.lines[1])

-----------------------------------------------------------------------------
\* Grid.tsx: the wheel.  zoom is a decimal numeral, <<1>> for 1, <<0, 1>> for
\* 0.1, <<1, 2, 1>> for 1.21, with no zero at its end: the products by 0.9 and
\* by 1.1 are exact.

minZoom == <<0, 1>>
maxZoom == <<5>>

RECURSIVE StripZeros(_)
StripZeros(a) ==
    IF Len(a) > 1 /\ a[Len(a)] = 0 THEN StripZeros(SubSeq(a, 1, Len(a) - 1)) ELSE a

PadZeros(a, n) == a \o [i \in 1..(n - Len(a)) |-> 0]

\* a < b
NumeralLess(a, b) ==
    LET n == Max(Len(a), Len(b))
        pa == PadZeros(a, n)
        pb == PadZeros(b, n)
    IN  \E i \in 1..n : pa[i] < pb[i] /\ \A j \in 1..(i - 1) : pa[j] = pb[j]

NumeralMin(a, b) == IF NumeralLess(b, a) THEN b ELSE a
NumeralMax(a, b) == IF NumeralLess(a, b) THEN b ELSE a

\* a * tenths / 10, digit by digit from the last, for a product below 10
RECURSIVE timesTenthsFrom(_, _, _, _, _)
timesTenthsFrom(a, tenths, i, carry, done) ==
    IF i = 0 THEN <<carry>> \o done
    ELSE LET v == a[i] * tenths + carry
         IN  timesTenthsFrom(a, tenths, i - 1, v \div 10, <<v % 10>> \o done)

TimesTenths(a, tenths) == StripZeros(timesTenthsFrom(a, tenths, Len(a), 0, <<>>))

\* the clamp of handleWheel with its lower limit left out
clampZoom_maxOnly(z) == NumeralMin(maxZoom, z)

\* Math.max(0.1, Math.min(5, z))
clampZoom(z) == NumeralMax(minZoom, NumeralMin(maxZoom, z))

\* Fractions num/den of integers, den > 0, in lowest terms: the coordinates
\* the wheel handler computes with.
RECURSIVE GCD(_, _)
GCD(m, n) == IF n = 0 THEN m ELSE GCD(n, m % n)

Frac(n, d) ==
    LET g == GCD(Abs(n), d)
    IN  [num |-> n \div g, den |-> d \div g]

FracMinus(f, g) == Frac(f.num * g.den - g.num * f.den, f.den * g.den)
FracPlus(f, g) == Frac(f.num * g.den + g.num * f.den, f.den * g.den)

\* the numeral z as the fraction ZoomNum(z) / ZoomDen(z)
RECURSIVE digitsValue(_, _)
digitsValue(z, i) == IF i = 0 THEN 0 ELSE 10 * digitsValue(z, i - 1) + z[i]

ZoomNum(z) == digitsValue(z, Len(z))

RECURSIVE TenTo(_)
TenTo(k) == IF k = 0 THEN 1 ELSE 10 * TenTo(k - 1)

ZoomDen(z) == TenTo(Len(z) - 1)

\* f / z and f * z; 0 is 0 whatever the zoom is
OverZoom(f, z) ==
    IF f.num = 0 THEN f ELSE Frac(f.num * ZoomDen(z), f.den * ZoomNum(z))
TimesZoom(f, z) ==
    IF f.num = 0 THEN f ELSE Frac(f.num * ZoomNum(z), f.den * ZoomDen(z))

\* screenToWorld with the division kept as a fraction, for a view at offset o
\* and zoom z
worldAt(screen, o, z) ==
    [x |-> OverZoom(Frac(screen.x - o.x, 1), z),
     y |-> OverZoom(Frac(screen.y - o.y, 1), z)]

\* Math.max(0.1, Math.min(5, zoomLevel * zoomFactor))
newZoomOf(z, deltaY) ==
    LET zoomFactorTenths == IF deltaY > 0 THEN 9 ELSE 11
    IN  clampZoom(TimesTenths(z, zoomFactorTenths))

\* the offset of handleWheel with the difference of the two world points
\* multiplied by the old zoom instead of the new one
newOffsetOf_oldZoom(mouse, o, z, newZoom) ==
    LET worldBefore == worldAt(mouse, o, z)
        worldAfter == worldAt(mouse, o, newZoom)
    IN  [x |-> FracPlus(Frac(o.x, 1), TimesZoom(FracMinus(worldAfter.x, worldBefore.x), z)),
         y |-> FracPlus(Frac(o.y, 1), TimesZoom(FracMinus(worldAfter.y, worldBefore.y), z))]

\* viewOffset + (worldAfter - worldBefore) * newZoom
newOffsetOf(mouse, o, z, newZoom) ==
    LET worldBefore == worldAt(mouse, o, z)
        worldAfter == worldAt(mouse, o, newZoom)
    IN  [x |-> FracPlus(Frac(o.x, 1),
                        TimesZoom(FracMinus(worldAfter.x, worldBefore.x), newZoom)),
         y |-> FracPlus(Frac(o.y, 1),
                        TimesZoom(FracMinus(worldAfter.y, worldBefore.y), newZoom))]

\* The wheel turned over the canvas with the pointer at mouse.  viewOffset is
\* kept in whole pixels: the event is taken where the new offset is whole.  The
\* effect of lines 111-113 runs after the render when zoomLevel has changed.
handleWheel(deltaY, mouse) ==
    LET newZoom == newZoomOf(zoom, deltaY)
        newOffset == newOffsetOf(mouse, viewOffset, zoom, newZoom)
    IN  /\ Len(zoom) <= MaxZoomDigits
        /\ newOffset.x.den = 1
        /\ newOffset.y.den = 1
        /\ zoom' = newZoom
        /\ zoomReported' = newZoom
        /\ viewOffset' = Pt(newOffset.x.num, newOffset.y.num)
        /\ UNCHANGED <<appVars, callVars, isDrawing, startPoint, currentPoint,
                       isDraggingEndpoint, isDraggingLine, lineDragOffset,
                       isDraggingFurniture, dragOffset, isPanning, panStart,
                       spacePressed, pointer>>

DeltaYs == {-100, 0, 100}

\* the wheel turned with the pointer where the view origin is: both world
\* points are (0, 0), whatever the zoom is
Wheel == \E deltaY \in DeltaYs : handleWheel(deltaY, viewOffset)

InitWheel ==
    /\ InitApp
    /\ InitGrid
    /\ preventOverlapping = TRUE
    /\ pointer = "up"
    /\ arg = Null
    /\ ret = Null

SpecWheel == InitWheel /\ [][Wheel]_vars

\* a + b, digit by digit from the last, for a sum below 10
RECURSIVE plusFrom(_, _, _, _, _)
plusFrom(a, b, i, carry, done) ==
    IF i = 0 THEN done
    ELSE LET v == a[i] + b[i] + carry
         IN  plusFrom(a, b, i - 1, v \div 10, <<v % 10>> \o done)

NumeralPlus(a, b) ==
    LET n == Max(Len(a), Len(b))
    IN  StripZeros(plusFrom(PadZeros(a, n), PadZeros(b, n), n, 0, <<>>))

\* a / 10
Tenth(a) == StripZeros(<<0>> \o a)

InZoomRange(z) == ~NumeralLess(z, minZoom) /\ ~NumeralLess(maxZoom, z)

\* z is 1.1 times a, clamped: a + a/10 brought into the range
GrownAndClamped(a, z) ==
    LET product == NumeralPlus(a, Tenth(a))
    IN  IF NumeralLess(maxZoom, product) THEN z = maxZoom ELSE z = product

\* z is 0.9 times a, clamped: z + a/10 = a, or z is the lower limit and even
\* that is more than 0.9 a
ShrunkAndClamped(a, z) ==
    \/ NumeralPlus(z, Tenth(a)) = a /\ ~NumeralLess(z, minZoom)
    \/ z = minZoom /\ NumeralLess(a, NumeralPlus(minZoom, Tenth(a)))

\* C20: zoomLevel starts at 1 and stays within [0.1, 5]: each wheel event
\* multiplies it by 0.9 or by 1.1 and clamps the result to the range, and every
\* value given to onZoomChange is within the range.
C20_ZoomStaysInRange ==
    /\ zoom = <<1>>
    /\ [](InZoomRange(zoom) /\ InZoomRange(zoomReported))
    /\ [][GrownAndClamped(zoom, zoom') \/ ShrunkAndClamped(zoom, zoom')]_vars

\* the wheel has been turned until the clamp held the zoom at 5, and 5 was
\* given to onZoomChange
C20_Witness ==
    /\ zoom = maxZoom
    /\ zoomReported = maxZoom

-----------------------------------------------------------------------------
\* One wheel event on a view that has been zoomed with the pointer at the view
\* origin and then panned by whole pixels: a zoom SpecWheel reaches, an offset
\* and a pointer position in whole pixels.

AnchorZooms == {<<1>>, <<1, 1>>, <<0, 9>>, <<5>>, <<4, 5>>, <<4, 9, 5>>,
                <<0, 1>>, <<0, 1, 1>>}
AnchorOffsets == {Pt(0, 0), Pt(10, 0), Pt(-7, 3)}
AnchorMice == {Pt(0, 0), Pt(10, 0), Pt(40, 30), Pt(7, 13)}

InitAnchor ==
    /\ InitApp
    /\ InitGrid
    /\ preventOverlapping = TRUE
    /\ pointer = "up"
    /\ arg \in {[zoomLevel |-> z, viewOffset |-> o, mouse |-> m, deltaY |-> d] :
                   z \in AnchorZooms, o \in AnchorOffsets, m \in AnchorMice,
                   d \in DeltaYs}
    /\ ret = Null

CallHandleWheel ==
    /\ ret = Null
    /\ ret' = LET newZoom == newZoomOf(arg.zoomLevel, arg.deltaY)
              IN  [zoomLevel |-> newZoom,
                   viewOffset |-> newOffsetOf(arg.mouse, arg.viewOffset,
                                              arg.zoomLevel, newZoom)]
    /\ UNCHANGED <<arg, appVars, gridVars, zoomVars, pointer>>

SpecAnchor == InitAnchor /\ [][CallHandleWheel]_vars

\* (screen - o) / z for an offset o whose coordinates are fractions
worldAtFraction(screen, o, z) ==
    [x |-> OverZoom(FracMinus(Frac(screen.x, 1), o.x), z),
     y |-> OverZoom(FracMinus(Frac(screen.y, 1), o.y), z)]

-----------------------------------------------------------------------------
\* The furniture scenario: the Furniture tool has been chosen; templates are
\* added to the library, selected and deleted; instances are placed, selected,
\* dragged, rotated and deleted, with Snap to Grid switched on and off.  No
\* line is drawn: the Line tool belongs to the line-editing scenario.

FurnitureTools == {"furniture", "select"}

FurnitureToolChange == \E tool \in FurnitureTools : onToolChange(tool)

\* pointer positions of the furniture scenario: a cell corner and the middle of
\* the next cell's top edge; the left button only
\* (panning belongs to the line-editing scenario)
FurniturePts == {Pt(0, 0), Pt(30, 0)}

FurnitureMouseDown ==
    /\ pointer = "up"
    /\ pointer' = "down"
    /\ \E screen \in FurniturePts : handleMouseDown(screen, 0)

FurnitureMouseMove ==
    /\ pointer # "out"
    /\ UNCHANGED pointer
    /\ \E screen \in FurniturePts : handleMouseMove(screen)

InitFurniture ==
    /\ lines = <<>>
    /\ selectedTool = "furniture"
    /\ selectedLine = 0
    /\ furnitureTemplates = <<>>
    /\ furniture = <<>>
    /\ selectedTemplate = 0
    /\ selectedFurniture = 0
    /\ gridAlignedMode = TRUE
    /\ preventOverlapping = TRUE
    /\ InitGrid
    /\ arg = Null
    /\ ret = Null
    /\ pointer = "up"

NextFurniture ==
    \/ FurnitureMouseDown
    \/ FurnitureMouseMove
    \/ MouseUp
    \/ FurnitureToolChange
    \/ AddFurnitureTemplate
    \/ SelectTemplate
    \/ DeleteFurnitureTemplate
    \/ handleFurnitureRotate
    \/ handleFurnitureDelete

SpecFurniture == InitFurniture /\ [][NextFurniture]_vars

\* a quarter turn, as a table
QuarterTurn(rotation) ==
    CASE rotation = 0 -> 90
      [] rotation = 90 -> 180
      [] rotation = 180 -> 270
      [] rotation = 270 -> 0
      [] OTHER -> -1

\* the instances of the two lists are the same, one by one, except the rotation
\* of the instance called id, which made a quarter turn
RotatedOnly(before, after, id) ==
    /\ Len(after) = Len(before)
    /\ \A i \in 1..Len(before) :
           IF before[i].id = id
           THEN /\ after[i].id = before[i].id
                /\ after[i].templateId = before[i].templateId
                /\ after[i].position = before[i].position
                /\ after[i].rotation = QuarterTurn(before[i].rotation)
           ELSE after[i] = before[i]

SomeRotationChanges ==
    \E i \in 1..Len(furniture) : \E j \in 1..Len(furniture') :
        /\ furniture'[j].id = furniture[i].id
        /\ furniture'[j].rotation # furniture[i].rotation

\* C22: the rotate action gives the selected instance the rotation
\* (rotation + 90) mod 360 and changes nothing else, neither its id, templateId
\* and position nor any other instance; a rotation changes in no other step;
\* every instance's rotation is always one of 0, 90, 180, 270, and four
\* rotations in a row give the rotation back
C22_RotateQuarterTurnOnly ==
    /\ [](\A i \in 1..Len(furniture) :
             /\ furniture[i].rotation \in Rotations
             /\ newRotation(newRotation(newRotation(newRotation(
                    furniture[i].rotation)))) = furniture[i].rotation)
    /\ [][(handleFurnitureRotate \/ SomeRotationChanges)
             => (/\ selectedFurniture # 0
                 /\ RotatedOnly(furniture, furniture', selectedFurniture)
                 /\ furnitureTemplates' = furnitureTemplates)]_vars

\* two instances, the first three quarter turns from its placement and the
\* second one
C22_Witness ==
    /\ Len(furniture) = 2
    /\ furniture[1].rotation = 270
    /\ furniture[2].rotation = 90

\* the instances of template id are gone and the others are what they were, in
\* their order
CascadeOnly(before, after, id) ==
    /\ \A j \in 1..Len(after) : after[j].templateId # id
    /\ after = SelectSeq(before, LAMBDA f : f.templateId # id)

\* C23: deleting a template removes every instance of that template and leaves
\* the instances of other templates unchanged; after any sequence of
\* add-template, select-template, place, move, rotate, delete-instance and
\* delete-template actions every instance's templateId is the id of a template
\* in the template list
C23_NoInstanceWithoutTemplate ==
    /\ [](\A i \in 1..Len(furniture) : furniture[i].templateId \in templateIds)
    /\ [][\A id \in templateIds :
             handleDeleteFurnitureTemplate(id)
                 => (/\ id \notin {furnitureTemplates'[j].id :
                                      j \in 1..Len(furnitureTemplates')}
                     /\ CascadeOnly(furniture, furniture', id))]_vars

\* a template was deleted while one of its instances was selected: the selection
\* names an instance that is gone, and an instance of the other template stays
C23_Witness ==
    /\ Len(furnitureTemplates) = 1
    /\ Len(furniture) = 1
    /\ selectedFurniture # 0
    /\ selectedFurniture \notin furnitureIds

-----------------------------------------------------------------------------
\* Furniture placement and dragging with the Snap to Grid checkbox: templates are
\* added and selected, instances placed and dragged, the checkbox toggled.

NextPlacement ==
    \/ FurnitureMouseDown
    \/ FurnitureMouseMove
    \/ MouseUp
    \/ FurnitureToolChange
    \/ GridAlignedModeChange
    \/ AddFurnitureTemplate
    \/ SelectTemplate

SpecPlacement == InitFurniture /\ [][NextPlacement]_vars

\* a position in whole cells (positions are kept in units of 1/cellSize cell)
WholeCells(position) == position.x % cellSize = 0 /\ position.y % cellSize = 0

\* the cell that holds the world point
FloorCellOf(position, worldPoint) ==
    /\ WholeCells(position)
    /\ position.x <= worldPoint.x /\ worldPoint.x < position.x + cellSize
    /\ position.y <= worldPoint.y /\ worldPoint.y < position.y + cellSize

\* C24: with gridAlignedMode on, a placement gives the new instance the floor
\* cell of the clicked world point and a drag move gives the dragged instance a
\* position in whole cells, whatever its position was before; with
\* gridAlignedMode off, a placement gives the clicked world point divided by
\* cellSize, not rounded
C24_AlignedPositionsAreWholeCells ==
    [][/\ \A screen \in FurniturePts :
             (handleMouseDown(screen, 0) /\ Len(furniture') = Len(furniture) + 1)
                 => LET placed == furniture'[Len(furniture')].position
                    IN  IF gridAlignedMode
                        THEN FloorCellOf(placed, screenToWorld(screen))
                        ELSE placed = screenToWorld(screen)
       /\ gridAlignedMode =>
             \A i \in 1..Len(furniture) :
                 (Len(furniture') = Len(furniture)
                    /\ furniture'[i].position # furniture[i].position)
                     => WholeCells(furniture'[i].position)]_vars

\* an instance grabbed while it stood between cells (the grab offset is a
\* fraction of a cell) stands on whole cells during its drag in grid-aligned mode
C24_Witness ==
    /\ gridAlignedMode
    /\ isDraggingFurniture
    /\ dragOffset # Null
    /\ dragOffset.x % cellSize # 0
    /\ \E i \in 1..Len(furniture) :
           /\ furniture[i].id = selectedFurniture
           /\ WholeCells(furniture[i].position)

-----------------------------------------------------------------------------
\* Moving a line by its body in grid-aligned mode: the Line and Select tools and
\* the left button, the pointer on the two ends of the top row and half a cell
\* below its middle.

TranslatePts == {Pt(0, 0), Pt(40, 0), Pt(20, 10)}

TranslateMouseDown ==
    /\ pointer = "up"
    /\ pointer' = "down"
    /\ \E screen \in TranslatePts : handleMouseDown(screen, 0)

TranslateMouseMove ==
    /\ pointer # "out"
    /\ UNCHANGED pointer
    /\ \E screen \in TranslatePts : handleMouseMove(screen)

NextTranslate ==
    \/ TranslateMouseDown
    \/ TranslateMouseMove
    \/ MouseUp
    \/ ToolChange
    \/ handleLineDelete

SpecTranslate == Init /\ [][NextTranslate]_vars

OnGridIntersection(p) == p.x % cellSize = 0 /\ p.y % cellSize = 0

AllOnGridIntersections(ls) ==
    \A i \in 1..Len(ls) :
        OnGridIntersection(ls[i].start) /\ OnGridIntersection(ls[i].end)

\* C25: with gridAlignedMode on and every endpoint of every line on a grid
\* intersection, a draw, endpoint-drag or translate gesture commits only
\* endpoints on grid intersections: every endpoint of the line list is on a
\* grid intersection after the step as well
C25_CommittedEndpointsOnGrid ==
    [][(gridAlignedMode /\ AllOnGridIntersections(lines))
          => AllOnGridIntersections(lines')]_vars

-----------------------------------------------------------------------------
\* storage.ts.  A JSON value is a record of its kind and a number that tells the
\* values of one kind apart: the number itself, the length of a string, the
\* number of elements of an array.  "undefined" is what reading a key gives that
\* the object does not have.  An item of localStorage is the JSON text of a
\* value, written here as the value (JSON.stringify and JSON.parse are inverse
\* on values that came out of a parse), or Absent where getItem returns null.

JValue(k, n) == [kind |-> k, payload |-> n]
Undefined == JValue("undefined", 0)
JNull == JValue("null", 0)
JNumber(n) == JValue("number", n)
JArray(n) == JValue("array", n)
Absent == JValue("absent", 0)

\* the truthiness JavaScript gives a value in if (...)
Truthy(v) ==
    CASE v.kind \in {"undefined", "null", "false"} -> FALSE
      [] v.kind \in {"number", "string"} -> v.payload # 0
      [] OTHER -> TRUE

STORAGE_KEYS == {"lines", "furniture", "templates", "gridScale"}

saveLines(storage, linesValue) == [storage EXCEPT !.lines = linesValue]
saveFurniture(storage, furnitureValue) == [storage EXCEPT !.furniture = furnitureValue]
saveFurnitureTemplates(storage, templates) == [storage EXCEPT !.templates = templates]
saveGridScale(storage, scale) == [storage EXCEPT !.gridScale = scale]

\* data ? JSON.parse(data) : []
loadLines(storage) == IF storage.lines = Absent THEN JArray(0) ELSE storage.lines

\* data ? JSON.parse(data) : null
loadGridScale(storage) == IF storage.gridScale = Absent THEN JNull ELSE storage.gridScale

\* A JSON string is what JSON.parse makes of it: text is "invalid" when the parse
\* throws, else the kind of the parsed value; for an object the four fields are
\* the values of its keys, Undefined for a key it does not have.  Reading a key of
\* a number or an array gives Undefined; reading a key of null throws a TypeError.
JsonString(t, l, f, tp, g) ==
    [text |-> t, lines |-> l, furniture |-> f, templates |-> tp, gridScale |-> g]

\* the try block throws only when the parse throws
importThrows_parseOnly(jsonString) == jsonString.text = "invalid"

\* the try block of importLayout throws: in JSON.parse, or in data.lines when
\* data is null
importThrows(jsonString) == jsonString.text \in {"invalid", "null"}

\* importLayout testing data.gridScale for truthiness like the other three keys
importLayout_gridScaleTruthy(jsonString, storage) ==
    LET data == jsonString
        s1 == IF Truthy(data.lines) THEN saveLines(storage, data.lines) ELSE storage
        s2 == IF Truthy(data.furniture) THEN saveFurniture(s1, data.furniture) ELSE s1
        s3 == IF Truthy(data.templates) THEN saveFurnitureTemplates(s2, data.templates)
              ELSE s2
        s4 == IF Truthy(data.gridScale) THEN saveGridScale(s3, data.gridScale) ELSE s3
    IN  IF importThrows(jsonString)
        THEN [value |-> FALSE, storage |-> storage]
        ELSE [value |-> TRUE, storage |-> s4]

\* importLayout(jsonString): the value returned and localStorage after the call
importLayout(jsonString, storage) ==
    LET data == jsonString
        s1 == IF Truthy(data.lines) THEN saveLines(storage, data.lines) ELSE storage
        s2 == IF Truthy(data.furniture) THEN saveFurniture(s1, data.furniture) ELSE s1
        s3 == IF Truthy(data.templates) THEN saveFurnitureTemplates(s2, data.templates)
              ELSE s2
        s4 == IF data.gridScale # Undefined THEN saveGridScale(s3, data.gridScale) ELSE s3
    IN  IF importThrows(jsonString)
        THEN [value |-> FALSE, storage |-> storage]
        ELSE [value |-> TRUE, storage |-> s4]

-----------------------------------------------------------------------------
\* importLayout called on its own, the way storage.test.ts calls it, on every
\* JSON string of a small set and every content of localStorage of a small set.

ListValues == {Undefined, JNull, JArray(0), JArray(1)}
ScaleValues == {Undefined, JNull, JNumber(0), JNumber(12)}

JsonStrings ==
    {JsonString("object", l, f, tp, g) :
        l \in ListValues, f \in ListValues, tp \in ListValues, g \in ScaleValues}
    \cup {JsonString(t, Undefined, Undefined, Undefined, Undefined) :
            t \in {"invalid", "null", "number", "array"}}

StoredLists == {Absent, JArray(2)}
StoredScales == {Absent, JNumber(6)}

Storages ==
    {[lines |-> l, furniture |-> f, templates |-> tp, gridScale |-> g] :
        l \in StoredLists, f \in StoredLists, tp \in StoredLists, g \in StoredScales}

InitImport ==
    /\ InitApp
    /\ InitGrid
    /\ preventOverlapping = TRUE
    /\ pointer = "up"
    /\ arg \in {[jsonString |-> j, storage |-> st] : j \in JsonStrings, st \in Storages}
    /\ ret = Null

CallImportLayout ==
    /\ ret = Null
    /\ ret' = importLayout(arg.jsonString, arg.storage)
    /\ UNCHANGED <<arg, appVars, gridVars, zoomVars, pointer>>

SpecImport == InitImport /\ [][CallImportLayout]_vars

ListKeys == {"lines", "furniture", "templates"}

\* C26 as stated: on a parseable JSON object importLayout replaces the stored
\* value of each of the keys lines, furniture, templates and gridScale that is
\* present in the object and leaves the stored value of every absent key
\* unchanged
C26_PresentKeysReplaced ==
    (ret # Null /\ arg.jsonString.text = "object")
        => \A key \in STORAGE_KEYS :
               ret.storage[key] = IF arg.jsonString[key] # Undefined
                                  THEN arg.jsonString[key]
                                  ELSE arg.storage[key]

\* C26: on a parseable JSON object importLayout replaces the stored value of
\* lines, furniture and templates where the object's value for the key is
\* truthy, and of gridScale where the object has the key, whatever its value;
\* the stored value of every other key is unchanged
C26_TruthyKeysReplaced ==
    (ret # Null /\ arg.jsonString.text = "object")
        => /\ \A key \in ListKeys :
                  ret.storage[key] = IF Truthy(arg.jsonString[key])
                                     THEN arg.jsonString[key]
                                     ELSE arg.storage[key]
           /\ ret.storage.gridScale = IF arg.jsonString.gridScale # Undefined
                                      THEN arg.jsonString.gridScale
                                      ELSE arg.storage.gridScale

\* an object with lines: null, an empty furniture array, no templates key and
\* gridScale: 0 was imported over a full localStorage: the lines and templates
\* stayed, the furniture and the scale were replaced
C26_Witness ==
    /\ ret # Null
    /\ arg.jsonString = JsonString("object", JNull, JArray(0), Undefined, JNumber(0))
    /\ \A key \in STORAGE_KEYS : arg.storage[key] # Absent
    /\ ret.storage.lines = arg.storage.lines
    /\ ret.storage.furniture = JArray(0)
    /\ ret.storage.templates = arg.storage.templates
    /\ ret.storage.gridScale = JNumber(0)

\* C27 as stated: importLayout returns false exactly when its input is not
\* parseable JSON, true for every parseable JSON text; when it returns false the
\* stored lines, furniture, templates and gridScale are unchanged
C27_FalseIffUnparseable ==
    ret # Null
        => /\ ret.value = FALSE <=> arg.jsonString.text = "invalid"
           /\ ret.value = FALSE => ret.storage = arg.storage

\* C27: importLayout returns false exactly when its input is not parseable JSON
\* or is the JSON text null, true for every other parseable JSON text, whatever
\* its fields; when it returns false the stored lines, furniture, templates and
\* gridScale are unchanged
C27_FalseIffUnparseableOrNull ==
    ret # Null
        => /\ ret.value = FALSE <=> arg.jsonString.text \in {"invalid", "null"}
           /\ ret.value = FALSE => ret.storage = arg.storage

\* the JSON text null was imported over a full localStorage: false, and nothing
\* stored has changed
C27_Witness ==
    /\ ret # Null
    /\ arg.jsonString.text = "null"
    /\ \A key \in STORAGE_KEYS : arg.storage[key] # Absent
    /\ ret.value = FALSE
    /\ ret.storage = arg.storage

-----------------------------------------------------------------------------
\* The grid scale: the Set Grid Scale dialog, the Reset button and the import of
\* a layout file.  In this scenario ret is the part of the program's state the
\* three handlers share and the canvas does not read: gridConfig.inchesPerCell
\* (a JSON value, for an import can put any value there), showScaleModal and
\* localStorage.

\* the line list an imported array of n lines becomes, and back
linesOf(value) ==
    [i \in 1..value.payload |->
        [id |-> i, start |-> Pt(0, cellSize * (i - 1)), end |-> Pt(cellSize, cellSize * (i - 1))]]

valueOfLines(ls) == JArray(Len(ls))

ScaleState(scale, modal, storage) ==
    [inchesPerCell |-> scale, showScaleModal |-> modal, storage |-> storage]

\* the state after the mount effects on an empty localStorage: the save effects
\* have written the empty lists, no scale is stored, the dialog is open
InitScale ==
    /\ InitApp
    /\ InitGrid
    /\ preventOverlapping = TRUE
    /\ pointer = "up"
    /\ arg = Null
    /\ ret = ScaleState(JNumber(inchesPerCell), TRUE,
                        [lines |-> JArray(0), furniture |-> Absent,
                         templates |-> JArray(0), gridScale |-> Absent])

\* what is typed into the dialog, as parseFloat reads it: not a number, or a
\* whole number
NaN == [nan |-> TRUE, value |-> 0]
Typed(n) == [nan |-> FALSE, value |-> n]
ScaleInputs == {NaN} \cup {Typed(n) : n \in {-6, 0, 1, 12, 120, 121}}

\* App.tsx handleScaleConfirm
handleScaleConfirm(value) ==
    /\ ret' = ScaleState(JNumber(value), FALSE, saveGridScale(ret.storage, JNumber(value)))
    /\ UNCHANGED <<arg, appVars, gridVars, zoomVars, pointer>>

\* ScaleModal handleSubmit: an input that is not a number from 1 to 120 only
\* shows an error
handleSubmit(input) ==
    /\ ret.showScaleModal
    /\ ~input.nan
    /\ ~(input.value <= 0)
    /\ ~(input.value < 1 \/ input.value > 120)
    /\ handleScaleConfirm(input.value)

ScaleConfirm == \E input \in ScaleInputs : handleSubmit(input)

\* App.tsx handleClear, confirmed, with the save effect of the emptied line list
handleClear ==
    /\ lines' = <<>>
    /\ furniture' = <<>>
    /\ selectedLine' = 0
    /\ selectedFurniture' = 0
    /\ ret' = ScaleState(ret.inchesPerCell, TRUE, saveLines(ret.storage, valueOfLines(<<>>)))
    /\ UNCHANGED <<selectedTool, furnitureTemplates, selectedTemplate, gridAlignedMode,
                   preventOverlapping, arg, gridVars, zoomVars, pointer>>

\* App.tsx handleImport, once the file is read, with the save effect of the new
\* line list
handleImport(content) ==
    LET imported == importLayout(content, ret.storage)
        importedLines == linesOf(loadLines(imported.storage))
        importedScale == loadGridScale(imported.storage)
    IN  IF imported.value
        THEN /\ lines' = importedLines
             /\ ret' = ScaleState(IF importedScale # JNull THEN importedScale
                                  ELSE ret.inchesPerCell,
                                  ret.showScaleModal,
                                  saveLines(imported.storage, valueOfLines(importedLines)))
             /\ UNCHANGED <<selectedTool, selectedLine, furnitureTemplates, furniture,
                            selectedTemplate, selectedFurniture, gridAlignedMode,
                            preventOverlapping, arg, gridVars, zoomVars, pointer>>
        ELSE UNCHANGED vars

Import == \E content \in JsonStrings : handleImport(content)

NextScale ==
    \/ ScaleConfirm
    \/ handleClear
    \/ Import

SpecScale == InitScale /\ [][NextScale]_vars

Positive(v) == v.kind = "number" /\ v.payload > 0

\* C28: gridConfig.inchesPerCell is a number greater than 0 in every state
\* reachable by scale-confirm, reset and layout-import actions
C28_ScaleAlwaysPositive == Positive(ret.inchesPerCell)

-----------------------------------------------------------------------------
\* Drawing next to existing lines (checked under Spec)

\* p lies on the closed segment l
PointOnSegment(p, l) ==
    IF l.start = l.end THEN p = l.start ELSE OnSegmentScaled(p, 1, l)

\* an end of one of the two segments lies on the other
Touches(l1, l2) ==
    \/ PointOnSegment(l1.start, l2)
    \/ PointOnSegment(l1.end, l2)
    \/ PointOnSegment(l2.start, l1)
    \/ PointOnSegment(l2.end, l1)

ActiveGestures ==
    {g \in {"drawing", "endpoint", "line", "furniture", "panning"} :
        \/ g = "drawing" /\ isDrawing
        \/ g = "endpoint" /\ isDraggingEndpoint # "null"
        \/ g = "line" /\ isDraggingLine
        \/ g = "furniture" /\ isDraggingFurniture
        \/ g = "panning" /\ isPanning}

\* C30: in every reachable state at most one of isDrawing, isDraggingEndpoint,
\* isDraggingLine, isDraggingFurniture and isPanning is set
C30_AtMostOneGesture == Cardinality(ActiveGestures) <= 1

====
